---- MODULE Spec2Model ----
(***************************************************************************)
(* A model of the HubSpot listings importer: the import run of             *)
(* src/importer.js (initialize, processListings), the per-record upsert    *)
(* loop of src/hubspot-client.js (searchByExternalListingId,               *)
(* createListing, updateListing, batchUpsert) against a remote listings    *)
(* store, and transformListings of src/transformer.js.                     *)
(*                                                                         *)
(* A remote call is modelled after HubSpotClient.retry has run: it either  *)
(* returned a result or threw the last error.                              *)
(***************************************************************************)
EXTENDS Integers, Sequences, FiniteSets, TLC

VARIABLES
    store,          \* remote listings: store[k] is the identifier of remote record k
    schemaExists,   \* remote: the listings custom object exists
    remoteProps,    \* remote: names of the properties that exist on the object
    runs,           \* number of import runs started so far
    pc,             \* pc[p]: where run p stands
    dryRun,         \* dryRun[p]: config.get('dryRun') of run p
    batchSize,      \* batchSize[p]: Importer.batchSize
    allListings,    \* allListings[p]: the list handed to processListings
    batchStart,     \* batchStart[p]: index of the first record of the current batch
    totalResults,   \* totalResults[p]: processListings' totals
    listings,       \* listings[p]: the list handed to batchUpsert
    i,              \* i[p]: position of batchUpsert's for..of loop
    existing,       \* existing[p]: what the lookup returned (0 is null)
    results,        \* results[p]: batchUpsert's tallies
    threw,          \* threw[p]: batchUpsert ended by an exception
    lastCall,       \* lastCall[p]: the last create/update request run p submitted
    mutated,        \* mutated[p]: the kinds of changing calls run p has issued
    existingProperties, \* existingProperties[p]: what getExistingProperties returned
    propIdx,        \* propIdx[p]: position of ensureProperties' loop
    trace,          \* trace[p]: what happened to each record of run p, in order
    feedListings,   \* input of transformListings
    transformed,    \* output of transformListings
    tpc,            \* position of the transformListings caller
    arg,            \* the value or raw record handed to the transformer call
    tz,             \* the process's local time zone, as minutes east of UTC
    ret,            \* what the transformer call returned (or that it threw)
    called,         \* the transformer method that has been called
    warnings,       \* DataTransformer.warnings
    tracked,        \* the trackWarning calls since the last reset, in order
    env,            \* process.env: the variables the configuration reads
    config,         \* Config.config, once it is loaded
    log,            \* what the process has done so far, in order
    attempt,        \* the retry loop's attempt
    lastError,      \* the retry loop's lastError
    rpc,            \* where the process stands
    chunkI,         \* i of processListings' chunking loop
    batches,        \* batches of processListings
    currentLevel    \* Logger.currentLevel

remoteVars == <<store, schemaExists, remoteProps>>
outerVars  == <<batchSize, allListings, batchStart, totalResults, dryRun>>
innerVars  == <<listings, i, existing, results, threw, lastCall, trace>>
initVars   == <<existingProperties, propIdx>>
coerceVars == <<arg, tz, ret, called, warnings, tracked>>
procVars   == <<env, config, log, attempt, lastError, rpc, chunkI, batches,
                currentLevel>>
transVars  == <<feedListings, transformed, tpc, coerceVars>>
vars == <<store, schemaExists, remoteProps, runs, pc, dryRun, batchSize,
          allListings, batchStart, totalResults, listings, i, existing,
          results, threw, lastCall, mutated, existingProperties, propIdx,
          trace, feedListings, transformed, tpc, arg, tz, ret, called,
          warnings, tracked, env, config, log, attempt, lastError, rpc,
          chunkI, batches, currentLevel>>

----------------------------------------------------------------------------
(* Bounds *)

MaxLen  == 2    \* longest list of canonical records of one run
MaxRuns == 2    \* import runs in one behaviour
SingleRun == 1  \* import runs in one behaviour, where one run is looked at
MaxPayloadLen == 1 \* longest list where the records' shapes vary
MaxRaceLen == 1 \* longest list of each of two concurrent runs
MaxChunkLen == 3 \* longest list where the batch size varies
MaxBatch == 2   \* largest batch size tried where the batch size varies
MaxFeed == 2    \* longest raw feed handed to transformListings
MaxTracks == 5  \* trackWarning calls in one behaviour
MaxRounds == 5  \* rounds of the chunking loop in one behaviour
MaxLogs == 2    \* messages logged in one behaviour
MaxBatchCalls == 3  \* calls of the transformer in one behaviour

Procs == {1, 2}
Ids == {"A", "B"}

\* A key an object does not have (undefined), and the JSON null.
Absent == "absent"
Null == "null"

BATCH_SIZE_DEFAULT == 100

\* The properties ensureProperties walks through (two of the list).
LISTINGS_PROPERTIES == <<"external_listing_id", "list_price">>

ListsUpTo(S, n) == UNION {[1..k -> S] : k \in 0..n}

----------------------------------------------------------------------------
(* Canonical records and the payloads built from them *)

Fields == {"external_listing_id", "hs_name", "price", "list_price",
           "auction_status", "hs_city", "hs_bedrooms"}

\* The canonical records the runs are fed: every combination of the price,
\* the legacy price and the auction status being present or not.
CanonicalPool ==
    {[external_listing_id |-> id, hs_name |-> "Test Listing", price |-> p,
      list_price |-> lp, auction_status |-> a, hs_city |-> "San Francisco",
      hs_bedrooms |-> "3"] :
        id \in Ids, p \in {Absent, "500000"}, lp \in {Absent, "500000"},
        a \in {Absent, "active"}}

\* Records that differ in their identifier only.
IdPool == {r \in CanonicalPool :
             r.price # Absent /\ r.list_price = Absent /\ r.auction_status # Absent}

NoPayload == [f \in Fields |-> Absent]

\* Fields an update may write.
UPDATE_ALLOWED == {"price", "auction_status"}

prepareUpdatePropertiesAll(properties) == properties

prepareUpdatePropertiesKeepLegacy(properties) ==
    [f \in Fields |->
        IF f \in UPDATE_ALLOWED \cup {"list_price"} THEN properties[f] ELSE Absent]

\* The update payload: the allowlisted fields that are present, and the
\* legacy price nulled when the price is written.
prepareUpdateProperties(properties) ==
    [f \in Fields |->
        IF f \in UPDATE_ALLOWED /\ properties[f] # Absent THEN properties[f]
        ELSE IF f = "list_price" /\ properties["price"] # Absent THEN Null
        ELSE Absent]

prepareCreatePropertiesAll(properties) == properties

\* The create payload: the canonical record without the legacy price.
prepareCreateProperties(properties) ==
    [properties EXCEPT !["list_price"] = Absent]

----------------------------------------------------------------------------
(* The remote store *)

\* searchApi.doSearch with an EQ filter on the identifier: results[0].id, or
\* 0 when there is no result.
doSearch(s, id) ==
    IF \E k \in DOMAIN s : s[k] = id
    THEN CHOOSE k \in DOMAIN s : s[k] = id /\ \A j \in DOMAIN s : s[j] = id => k <= j
    ELSE 0

basicApiCreateIfAbsent(s, properties) ==
    IF doSearch(s, properties.external_listing_id) = 0
    THEN Append(s, properties.external_listing_id)
    ELSE s

\* basicApi.create: a new remote record, whatever the store already holds.
basicApiCreate(s, properties) == Append(s, properties.external_listing_id)

----------------------------------------------------------------------------
(* batchUpsert's bookkeeping *)

NoResults == [created |-> 0, updated |-> 0, failed |-> 0, errors |-> <<>>]

NoCall == [op |-> "none", id |-> 0, properties |-> NoPayload, listing |-> NoPayload]

ErrorEntry(listing, message) ==
    [externalListingId |-> listing.external_listing_id, error |-> message]

onErrorNoEntry(res, listing, message) == [res EXCEPT !.failed = @ + 1]

\* The catch block of batchUpsert's loop body.
onError(res, listing, message) ==
    [res EXCEPT !.failed = @ + 1,
                !.errors = Append(@, ErrorEntry(listing, message))]

\* Whether a failed write leaves batchUpsert as an exception: the try block
\* spans the whole loop body, so none does.
escapes(op) == FALSE

\* The tally of one record of batchUpsert's loop: op is the write its lookup
\* led to, ok whether that write returned.
tallyOne(res, listing, op, ok) ==
    IF ~ok THEN onError(res, listing, op)
    ELSE IF op = "update" THEN [res EXCEPT !.updated = @ + 1]
    ELSE [res EXCEPT !.created = @ + 1]

outcomeOf(op, ok) ==
    IF ~ok THEN "failed" ELSE IF op = "update" THEN "updated" ELSE "created"

\* A lookup that never finds a record.
searchFindsNothing(ok, s, id) == 0

\* searchByExternalListingId: the first match, null when there is none and
\* null as well when the search failed (the catch returns null).
searchByExternalListingId(ok, s, id) == IF ok THEN doSearch(s, id) ELSE 0

----------------------------------------------------------------------------
(* Importer.processListings *)

\* listings.slice(i, i + batchSize), with 1-based from.
slice(list, from, size) ==
    SubSeq(list, from, IF from + size - 1 < Len(list) THEN from + size - 1 ELSE Len(list))

addResultsNoErrors(total, res) ==
    [created |-> total.created + res.created,
     updated |-> total.updated + res.updated,
     failed  |-> total.failed + res.failed,
     errors  |-> total.errors]

\* The try block of processListings' loop: the batch's tallies are added.
addResults(total, res) ==
    [created |-> total.created + res.created,
     updated |-> total.updated + res.updated,
     failed  |-> total.failed + res.failed,
     errors  |-> total.errors \o res.errors]

\* What batchUpsert returns for a list, given for each of its records what
\* the lookup found and whether the write returned.
RECURSIVE batchUpsertFrom(_, _, _, _)
batchUpsertFrom(list, outcomes, k, res) ==
    IF k > Len(list) THEN res
    ELSE batchUpsertFrom(list, outcomes, k + 1,
            tallyOne(res, list[k],
                     IF outcomes[k].found THEN "update" ELSE "create",
                     outcomes[k].writeOk))

batchUpsert(list, outcomes) == batchUpsertFrom(list, outcomes, 1, NoResults)

----------------------------------------------------------------------------
(* transformListings *)

\* The keys an identifier is read from, in the order they are tried (two of
\* the five spellings).
ID_KEYS == <<"external_listing_id", "id">>

\* A raw feed entry: an object with any values under the identifier keys, or
\* a null entry, on which reading a key throws.
RawValues == {Absent, Null, "", "A", "B"}

RawPool ==
    {[isNull |-> FALSE, external_listing_id |-> a, id |-> b] :
        a \in RawValues, b \in RawValues}
    \cup {[isNull |-> TRUE, external_listing_id |-> Absent, id |-> Absent]}

\* JavaScript truthiness of an identifier value.
Truthy(v) == v \notin {Absent, Null, ""}

RECURSIVE getFirstAvailableFieldFrom(_, _, _)
getFirstAvailableFieldFrom(feedListing, fieldNames, k) ==
    IF k > Len(fieldNames) THEN Null
    ELSE IF feedListing[fieldNames[k]] \notin {Absent, Null}
         THEN feedListing[fieldNames[k]]
         ELSE getFirstAvailableFieldFrom(feedListing, fieldNames, k + 1)

\* The first listed key whose value is neither undefined nor null.
getFirstAvailableField(feedListing, fieldNames) ==
    getFirstAvailableFieldFrom(feedListing, fieldNames, 1)

\* The result of the map callback for an entry on which transformListing throws.
NullListing == [isNull |-> TRUE, external_listing_id |-> Absent]

\* transformListing, as far as the identifier goes: it is set when the
\* resolved value is truthy.
transformListing(feedListing) ==
    LET externalListingId == getFirstAvailableField(feedListing, ID_KEYS)
    IN  [isNull |-> FALSE,
         external_listing_id |->
            IF Truthy(externalListingId) THEN externalListingId ELSE Absent]

\* The map callback of transformListings: a throw becomes null.
tryTransformListing(feedListing) ==
    IF feedListing.isNull THEN NullListing ELSE transformListing(feedListing)

keepListingNotNull(listing) == ~listing.isNull

\* The filter callback of transformListings.
keepListing(listing) == ~listing.isNull /\ Truthy(listing.external_listing_id)

RECURSIVE mapFilterFrom(_, _)
mapFilterFrom(list, k) ==
    IF k > Len(list) THEN <<>>
    ELSE LET listing == tryTransformListing(list[k])
         IN  (IF keepListing(listing) THEN <<listing>> ELSE <<>>)
                \o mapFilterFrom(list, k + 1)

transformListings(list) == mapFilterFrom(list, 1)

----------------------------------------------------------------------------
(* Actions of an import run *)

Idle(p) == pc[p] = "idle"

ResetRun(p) ==
    /\ dryRun' = [dryRun EXCEPT ![p] = FALSE]
    /\ batchSize' = [batchSize EXCEPT ![p] = BATCH_SIZE_DEFAULT]
    /\ allListings' = [allListings EXCEPT ![p] = <<>>]
    /\ batchStart' = [batchStart EXCEPT ![p] = 1]
    /\ totalResults' = [totalResults EXCEPT ![p] = NoResults]
    /\ listings' = [listings EXCEPT ![p] = <<>>]
    /\ i' = [i EXCEPT ![p] = 1]
    /\ existing' = [existing EXCEPT ![p] = 0]
    /\ results' = [results EXCEPT ![p] = NoResults]
    /\ threw' = [threw EXCEPT ![p] = FALSE]
    /\ lastCall' = [lastCall EXCEPT ![p] = NoCall]
    /\ mutated' = [mutated EXCEPT ![p] = {}]
    /\ existingProperties' = [existingProperties EXCEPT ![p] = {}]
    /\ propIdx' = [propIdx EXCEPT ![p] = 1]
    /\ trace' = [trace EXCEPT ![p] = <<>>]

\* A run begins: its configuration and the transformed listings are fixed.
StartRun(p, pool, maxLen, sizes, dries, first, maxRuns) ==
    /\ Idle(p)
    /\ runs < maxRuns
    /\ runs' = runs + 1
    /\ \E list \in ListsUpTo(pool, maxLen), size \in sizes, dry \in dries :
        /\ allListings' = [allListings EXCEPT ![p] = list]
        /\ batchSize' = [batchSize EXCEPT ![p] = size]
        /\ dryRun' = [dryRun EXCEPT ![p] = dry]
    /\ batchStart' = [batchStart EXCEPT ![p] = 1]
    /\ totalResults' = [totalResults EXCEPT ![p] = NoResults]
    /\ pc' = [pc EXCEPT ![p] = first]
    /\ UNCHANGED <<remoteVars, innerVars, mutated, initVars, transVars, procVars>>

\* ensureListingsObject: the schema is fetched; when the answer is 404 the
\* object is created by createListingsObject, any other error is thrown on.
EnsureListingsObject(p) ==
    /\ pc[p] = "ensureObject"
    /\ \E answer \in {"found", "notFound", "error"}, ok \in BOOLEAN :
        /\ answer = "found" => schemaExists /\ ok
        /\ answer = "notFound" => ~schemaExists
        /\ answer = "error" => ok
        /\ IF answer = "notFound"
           THEN /\ mutated' = [mutated EXCEPT ![p] = @ \cup {"schema"}]
                /\ schemaExists' = ok
                /\ pc' = [pc EXCEPT ![p] = IF ok THEN "getProps" ELSE "failed"]
           ELSE /\ pc' = [pc EXCEPT ![p] =
                            IF answer = "found" THEN "getProps" ELSE "failed"]
                /\ UNCHANGED <<mutated, schemaExists>>
    /\ UNCHANGED <<store, remoteProps, runs, outerVars, innerVars, initVars,
                   transVars, procVars>>

\* getExistingProperties: the remote properties, or none when the call failed.
GetExistingProperties(p) ==
    /\ pc[p] = "getProps"
    /\ \E ok \in BOOLEAN :
        existingProperties' = [existingProperties EXCEPT ![p] =
                                  IF ok THEN remoteProps ELSE {}]
    /\ propIdx' = [propIdx EXCEPT ![p] = 1]
    /\ pc' = [pc EXCEPT ![p] = "createProp"]
    /\ UNCHANGED <<remoteVars, runs, outerVars, innerVars, mutated, transVars, procVars>>

\* One round of ensureProperties' loop: createPropertyIfNotExists. A property
\* that exists is skipped, a dry run only logs, otherwise the property is
\* created and a failure is thrown on.
CreatePropertyIfNotExists(p) ==
    /\ pc[p] = "createProp"
    /\ LET property == LISTINGS_PROPERTIES[propIdx[p]]
           next == IF propIdx[p] + 1 > Len(LISTINGS_PROPERTIES)
                   THEN "batch" ELSE "createProp"
       IN  IF property \in existingProperties[p] \/ dryRun[p]
           THEN /\ pc' = [pc EXCEPT ![p] = next]
                /\ UNCHANGED <<remoteProps, mutated>>
           ELSE \E ok \in BOOLEAN :
                /\ ok => property \notin remoteProps
                /\ mutated' = [mutated EXCEPT ![p] = @ \cup {"property"}]
                /\ remoteProps' = IF ok THEN remoteProps \cup {property}
                                  ELSE remoteProps
                /\ pc' = [pc EXCEPT ![p] = IF ok THEN next ELSE "failed"]
    /\ propIdx' = [propIdx EXCEPT ![p] = @ + 1]
    /\ UNCHANGED <<store, schemaExists, runs, outerVars, innerVars,
                   existingProperties, transVars, procVars>>

\* processListings: the next batch is handed to batchUpsert, or the totals
\* are returned when no batch is left.
NextBatch(p) ==
    /\ pc[p] = "batch"
    /\ IF batchStart[p] > Len(allListings[p])
       THEN /\ pc' = [pc EXCEPT ![p] = "done"]
            /\ UNCHANGED <<listings, i, results, threw>>
       ELSE /\ listings' = [listings EXCEPT ![p] =
                               slice(allListings[p], batchStart[p], batchSize[p])]
            /\ i' = [i EXCEPT ![p] = 1]
            /\ results' = [results EXCEPT ![p] = NoResults]
            /\ threw' = [threw EXCEPT ![p] = FALSE]
            /\ pc' = [pc EXCEPT ![p] = "search"]
    /\ UNCHANGED <<remoteVars, runs, outerVars, existing, lastCall, mutated,
                   initVars, trace, transVars, procVars>>

\* batchUpsert, first half of the loop body: the lookup.
Search(p) ==
    /\ pc[p] = "search"
    /\ \E ok \in BOOLEAN :
        /\ existing' = [existing EXCEPT ![p] =
              searchByExternalListingId(ok, store,
                                        listings[p][i[p]].external_listing_id)]
        /\ trace' = [trace EXCEPT ![p] = Append(@,
              [id |-> listings[p][i[p]].external_listing_id, lookupOk |-> ok,
               found |-> ok /\ doSearch(store, listings[p][i[p]].external_listing_id) # 0,
               writeOk |-> FALSE, tally |-> "pending"])]
    /\ pc' = [pc EXCEPT ![p] = "write"]
    /\ UNCHANGED <<remoteVars, runs, outerVars, listings, i, results, threw,
                   lastCall, mutated, initVars, transVars, procVars>>

\* What the loop does once the record's outcome is known.
Advance(p, res, ok, tally, thrown) ==
    /\ results' = [results EXCEPT ![p] = res]
    /\ trace' = [trace EXCEPT ![p][Len(trace[p])].tally = tally,
                              ![p][Len(trace[p])].writeOk = ok]
    /\ threw' = [threw EXCEPT ![p] = thrown]
    /\ i' = [i EXCEPT ![p] = IF thrown THEN @ ELSE @ + 1]
    /\ pc' = [pc EXCEPT ![p] =
                IF thrown \/ i[p] + 1 > Len(listings[p]) THEN "return" ELSE "search"]

\* batchUpsert, second half of the loop body: the record found is updated, a
\* record not found is created, and the outcome is tallied. createListing and
\* updateListing return before any request in a dry run. The payload is what
\* prepareUpdateProperties or prepareCreateProperties makes of the record.
Write(p) ==
    /\ pc[p] = "write"
    /\ LET listing == listings[p][i[p]]
           op == IF existing[p] # 0 THEN "update" ELSE "create"
           properties == IF op = "update" THEN prepareUpdateProperties(listing)
                         ELSE prepareCreateProperties(listing)
       IN  IF dryRun[p]
           THEN /\ Advance(p, tallyOne(results[p], listing, op, TRUE), TRUE,
                           outcomeOf(op, TRUE), FALSE)
                /\ UNCHANGED <<store, lastCall, mutated>>
           ELSE \E ok \in BOOLEAN :
                /\ lastCall' = [lastCall EXCEPT ![p] =
                      [op |-> op, id |-> existing[p], properties |-> properties,
                       listing |-> listing]]
                /\ mutated' = [mutated EXCEPT ![p] = @ \cup {op}]
                /\ store' = IF ok /\ op = "create"
                            THEN basicApiCreate(store, properties) ELSE store
                /\ IF ~ok /\ escapes(op)
                   THEN Advance(p, results[p], ok, "thrown", TRUE)
                   ELSE Advance(p, tallyOne(results[p], listing, op, ok), ok,
                                outcomeOf(op, ok), FALSE)
    /\ UNCHANGED <<schemaExists, remoteProps, runs, outerVars, listings,
                   existing, initVars, transVars, procVars>>

\* processListings: the batch's results are added to the totals; a batch
\* that threw counts all its records as failed.
Aggregate(p) ==
    /\ pc[p] = "return"
    /\ totalResults' = [totalResults EXCEPT ![p] =
          IF threw[p]
          THEN [@ EXCEPT !.failed = @ + Len(listings[p])]
          ELSE addResults(@, results[p])]
    /\ batchStart' = [batchStart EXCEPT ![p] = @ + batchSize[p]]
    /\ pc' = [pc EXCEPT ![p] = "batch"]
    /\ UNCHANGED <<remoteVars, runs, batchSize, allListings, dryRun, innerVars,
                   mutated, initVars, transVars, procVars>>

\* The run has returned its totals or has thrown; the process ends.
Finish(p) ==
    /\ pc[p] \in {"done", "failed"}
    /\ pc' = [pc EXCEPT ![p] = "idle"]
    /\ ResetRun(p)
    /\ UNCHANGED <<remoteVars, runs, transVars, procVars>>

----------------------------------------------------------------------------
(* JavaScript values of a parsed JSON feed, as the transformer sees them.
   A number is the integer hi * MS_PER_DAY + lo with 0 <= lo < MS_PER_DAY,
   so that epoch milliseconds stay exact. *)

MS_PER_DAY == 24 * 60 * 60 * 1000

Undefined == [t |-> "undefined"]
JsNull    == [t |-> "null"]
NaN       == [t |-> "NaN"]
Infinity  == [t |-> "Infinity"]
JsObject  == [t |-> "object"]       \* a plain object, {}
JsFunction == [t |-> "function"]    \* a built-in function
Bool(b)   == [t |-> "boolean", b |-> b]
Str(s)    == [t |-> "string", s |-> s]
\* frac holds the digits after the decimal point, "" for an integer.
Frac(hi, lo, frac) == [t |-> "number", hi |-> hi, lo |-> lo, frac |-> frac]
Big(hi, lo) == Frac(hi, lo, "")
Num(n)    == Big(n \div MS_PER_DAY, n % MS_PER_DAY)

\* What a method that threw leaves in place of a return value.
Threw == [t |-> "threw"]

typeof(v) ==
    CASE v.t \in {"number", "NaN", "Infinity"} -> "number"
      [] v.t = "null" -> "object"
      [] OTHER -> v.t

IsZero(v) == v.t = "number" /\ v.hi = 0 /\ v.lo = 0 /\ v.frac = ""

\* !v
Falsy(v) ==
    \/ v.t \in {"undefined", "null", "NaN"}
    \/ v = Bool(FALSE)
    \/ v = Str("")
    \/ IsZero(v)

\* v * 1000
Times1000(v) ==
    Big(v.hi * 1000 + v.lo \div (MS_PER_DAY \div 1000),
        (v.lo % (MS_PER_DAY \div 1000)) * 1000)

----------------------------------------------------------------------------
(* Strings *)

LOWER == "abcdefghijklmnopqrstuvwxyz"
UPPER == "ABCDEFGHIJKLMNOPQRSTUVWXYZ"
DIGITS == "0123456789"

charAt(s, k) == SubSeq(s, k, k)

\* The position of character c in string s, 0 when it is not there.
indexOf(s, c) ==
    IF \E k \in 1..Len(s) : charAt(s, k) = c
    THEN CHOOSE k \in 1..Len(s) :
            /\ charAt(s, k) = c
            /\ \A j \in 1..(k - 1) : charAt(s, j) # c
    ELSE 0

\* s with every character of from replaced by the one at its place in to
RECURSIVE mapChars(_, _, _)
mapChars(s, from, to) ==
    LET c == Head(s)
        mapped == IF indexOf(from, c) = 0 THEN c
                  ELSE charAt(to, indexOf(from, c))
    IN  IF s = "" THEN "" ELSE mapped \o mapChars(Tail(s), from, to)

toUpperCase(s) == mapChars(s, LOWER, UPPER)
toLowerCase(s) == mapChars(s, UPPER, LOWER)

RECURSIVE trimStart(_)
trimStart(s) == IF s # "" /\ Head(s) = " " THEN trimStart(Tail(s)) ELSE s

RECURSIVE trimEnd(_)
trimEnd(s) ==
    IF s # "" /\ charAt(s, Len(s)) = " "
    THEN trimEnd(SubSeq(s, 1, Len(s) - 1))
    ELSE s

trim(s) == trimEnd(trimStart(s))

IsDigit(c) == indexOf(DIGITS, c) # 0

\* The longest prefix of s made of digits.
RECURSIVE digitPrefix(_)
digitPrefix(s) ==
    IF s # "" /\ IsDigit(Head(s)) THEN Head(s) \o digitPrefix(Tail(s)) ELSE ""

\* The number a string of digits denotes.
RECURSIVE digitsValue(_)
digitsValue(s) ==
    IF s = "" THEN 0
    ELSE digitsValue(SubSeq(s, 1, Len(s) - 1)) * 10
            + (indexOf(DIGITS, charAt(s, Len(s))) - 1)

AllDigits(s) == s # "" /\ \A k \in 1..Len(s) : IsDigit(charAt(s, k))

\* The decimal digits of the integer hi * MS_PER_DAY + lo, hi >= 0.
RECURSIVE decimal(_, _)
decimal(hi, lo) ==
    LET rest == (hi % 10) * MS_PER_DAY + lo
        digit == charAt(DIGITS, (rest % 10) + 1)
    IN  IF hi = 0 /\ lo < 10 THEN digit
        ELSE decimal(hi \div 10, rest \div 10) \o digit

\* String(v)
StringOf(v) ==
    CASE v.t = "string" -> v.s
      [] v.t = "number" ->
            (IF v.hi < 0 THEN "-" \o decimal(-v.hi - (IF v.lo = 0 THEN 0 ELSE 1),
                                             (MS_PER_DAY - v.lo) % MS_PER_DAY)
             ELSE decimal(v.hi, v.lo))
            \o (IF v.frac = "" THEN "" ELSE "." \o v.frac)
      [] v.t = "boolean" -> IF v.b THEN "true" ELSE "false"
      [] v.t = "object" -> "[object Object]"
      [] OTHER -> v.t      \* "null", "undefined", "NaN", "Infinity"

\* The number a string of digits denotes, of any size.
RECURSIVE digitsNumber(_)
digitsNumber(s) ==
    IF s = "" THEN Big(0, 0)
    ELSE LET front == digitsNumber(SubSeq(s, 1, Len(s) - 1))
             low == front.lo * 10 + (indexOf(DIGITS, charAt(s, Len(s))) - 1)
         IN  Big(front.hi * 10 + low \div MS_PER_DAY, low % MS_PER_DAY)

\* -v for an integer v
Negated(v) ==
    IF v.lo = 0 THEN Big(-v.hi, 0) ELSE Big(-v.hi - 1, MS_PER_DAY - v.lo)

startsWith(s, prefix) ==
    Len(s) >= Len(prefix) /\ SubSeq(s, 1, Len(prefix)) = prefix

RECURSIVE dropTrailingZeros(_)
dropTrailingZeros(s) ==
    IF s # "" /\ charAt(s, Len(s)) = "0"
    THEN dropTrailingZeros(SubSeq(s, 1, Len(s) - 1))
    ELSE s

\* parseFloat(v): the longest numeric prefix of String(v) after leading
\* white space: a sign, digits, a decimal point and digits.
parseFloat(v) ==
    LET Number(neg, int, frac, n) ==
            IF int = "" /\ frac = "" THEN NaN
            ELSE IF neg /\ dropTrailingZeros(frac) = "" THEN Negated(n)
            ELSE Frac(n.hi, n.lo, dropTrailingZeros(frac))
        Fraction(after) ==
            IF startsWith(after, ".") THEN digitPrefix(Tail(after)) ELSE ""
        Digits(neg, body, int) ==
            IF startsWith(body, "Infinity") THEN Infinity
            ELSE Number(neg, int,
                        Fraction(SubSeq(body, Len(int) + 1, Len(body))),
                        digitsNumber(int))
        Unsigned(neg, body) == Digits(neg, body, digitPrefix(body))
        Signed(str) ==
            Unsigned(startsWith(str, "-"),
                     IF startsWith(str, "-") \/ startsWith(str, "+")
                     THEN Tail(str) ELSE str)
    IN  Signed(trimStart(StringOf(v)))

----------------------------------------------------------------------------
(* DataTransformer.parseNumber and parseBoolean *)

parseNumber(value) ==
    IF value = JsNull \/ value = Undefined \/ value = Str("")
    THEN JsNull
    ELSE LET NullIfNaN(num) == IF num = NaN THEN JsNull ELSE num
         IN  NullIfNaN(parseFloat(value))

\* value.toLowerCase(): a TypeError unless value is a string.
callToLowerCase(value) ==
    IF value.t = "string" THEN Str(toLowerCase(value.s)) ELSE Threw

parseBooleanAnyType(value) ==
    IF value = JsNull \/ value = Undefined THEN JsNull
    ELSE IF typeof(value) = "boolean" THEN value
    ELSE LET low == callToLowerCase(value)
         IN  IF low = Threw THEN Threw
             ELSE Bool(low.s = "true" \/ value.s = "1" \/ low.s = "yes")

parseBoolean(value) ==
    IF value = JsNull \/ value = Undefined THEN JsNull
    ELSE IF typeof(value) = "boolean" THEN value
    ELSE IF typeof(value) = "string"
         THEN LET low == callToLowerCase(value)
              IN  IF low = Threw THEN Threw
                  ELSE Bool(low.s = "true" \/ value.s = "1" \/ low.s = "yes")
    ELSE IF typeof(value) = "number" THEN Bool(~IsZero(value))
    ELSE Bool(~Falsy(value))

----------------------------------------------------------------------------
(* JavaScript's Date, for the ISO 8601 strings of a feed: YYYY-MM-DD,
   optionally followed by THH:MM:SS and by Z or +HH:MM or -HH:MM.  A date
   without a time is UTC midnight; a time without an offset is local time.
   Of the other strings, the model covers those without a digit and those
   with a month over 12: they give an invalid Date. *)

\* Days from 1970-01-01 to the proleptic Gregorian date y-m-d.
daysFromCivil(y, m, d) ==
    LET yy == IF m <= 2 THEN y - 1 ELSE y
        era == yy \div 400
        yoe == yy - era * 400
        mp == IF m > 2 THEN m - 3 ELSE m + 9
        doy == (153 * mp + 2) \div 5 + d - 1
        doe == yoe * 365 + yoe \div 4 - yoe \div 100 + doy
    IN  era * 146097 + doe - 719468

\* The calendar year of day z (days since 1970-01-01).
yearFromDays(z) ==
    LET zz == z + 719468
        era == zz \div 146097
        doe == zz - era * 146097
        yoe == (doe - doe \div 1460 + doe \div 36524 - doe \div 146096) \div 365
        doy == doe - (365 * yoe + yoe \div 4 - yoe \div 100)
        mp == (5 * doy + 2) \div 153
        m == IF mp < 10 THEN mp + 3 ELSE mp - 9
    IN  yoe + era * 400 + (IF m <= 2 THEN 1 ELSE 0)

daysInMonth(y, m) ==
    LET leap == y % 4 = 0 /\ (y % 100 # 0 \/ y % 400 = 0)
    IN  IF m = 2 THEN (IF leap THEN 29 ELSE 28)
        ELSE IF m \in {4, 6, 9, 11} THEN 30 ELSE 31

\* The instant day * MS_PER_DAY + ms, for any integer ms.
Instant(day, ms) == Big(day + ms \div MS_PER_DAY, ms % MS_PER_DAY)

TwoDigits(s, k) ==
    Len(s) >= k + 1 /\ AllDigits(SubSeq(s, k, k + 1))

\* The offset of a time zone designator in minutes east of UTC; zoneOK tells
\* whether the designator is well formed ("" stands for local time).
zoneOK(zone) ==
    \/ zone \in {"", "Z"}
    \/ /\ Len(zone) = 6
       /\ charAt(zone, 1) \in {"+", "-"}
       /\ TwoDigits(zone, 2) /\ charAt(zone, 4) = ":" /\ TwoDigits(zone, 5)
       /\ digitsValue(SubSeq(zone, 2, 3)) <= 23
       /\ digitsValue(SubSeq(zone, 5, 6)) <= 59

zoneMinutes(zone, local) ==
    IF zone = "" THEN local
    ELSE IF zone = "Z" THEN 0
    ELSE (IF charAt(zone, 1) = "-" THEN -1 ELSE 1)
            * (digitsValue(SubSeq(zone, 2, 3)) * 60 + digitsValue(SubSeq(zone, 5, 6)))

\* new Date(str).getTime(), NaN for an invalid Date.
dateFromString(str, local) ==
    LET n == Len(str)
        dateOK == /\ n >= 10
                  /\ AllDigits(SubSeq(str, 1, 4)) /\ charAt(str, 5) = "-"
                  /\ TwoDigits(str, 6) /\ charAt(str, 8) = "-"
                  /\ TwoDigits(str, 9)
        y == digitsValue(SubSeq(str, 1, 4))
        m == digitsValue(SubSeq(str, 6, 7))
        d == digitsValue(SubSeq(str, 9, 10))
        rest == SubSeq(str, 11, n)
        timeOK == /\ Len(rest) >= 9
                  /\ charAt(rest, 1) = "T"
                  /\ TwoDigits(rest, 2) /\ charAt(rest, 4) = ":"
                  /\ TwoDigits(rest, 5) /\ charAt(rest, 7) = ":"
                  /\ TwoDigits(rest, 8)
        hh == digitsValue(SubSeq(rest, 2, 3))
        mi == digitsValue(SubSeq(rest, 5, 6))
        ss == digitsValue(SubSeq(rest, 8, 9))
        zone == SubSeq(rest, 10, Len(rest))
    IN  IF ~dateOK THEN NaN
        ELSE IF ~(m \in 1..12 /\ d \in 1..daysInMonth(y, m)) THEN NaN
        ELSE IF rest = "" THEN Instant(daysFromCivil(y, m, d), 0)
        ELSE IF ~timeOK THEN NaN
        ELSE IF ~(hh <= 23 /\ mi <= 59 /\ ss <= 59 /\ zoneOK(zone)) THEN NaN
        ELSE Instant(daysFromCivil(y, m, d),
                     ((hh * 60 + mi - zoneMinutes(zone, local)) * 60 + ss) * 1000)

\* new Date(number).getTime(); a Date holds at most 100 000 000 days on
\* either side of the epoch.
dateFromNumber(timestamp) ==
    LET maxDays == 100 * 1000 * 1000
    IN  IF timestamp.t # "number" THEN NaN
        ELSE IF timestamp.hi < -maxDays THEN NaN
        ELSE IF timestamp.hi > maxDays
                \/ (timestamp.hi = maxDays /\ timestamp.lo > 0) THEN NaN
        ELSE Big(timestamp.hi, timestamp.lo)

\* date.getFullYear(): the calendar year in the local time zone.
getFullYear(time, local) ==
    yearFromDays(time.hi + (time.lo + local * 60 * 1000) \div MS_PER_DAY)

----------------------------------------------------------------------------
(* DataTransformer.parseDate.  A transformer method returns its value and
   the trackWarning calls it made, in order. *)

Returns(value) == [value |-> value, calls |-> <<>>]
Warns(type, example, value) == [value |-> value, calls |-> <<<<type, example>>>>]

\* new Date(value), whatever the size of value.
parseDateNumberAsMilliseconds(value) == dateFromNumber(value)

\* value < 10000000000 ? value * 1000 : value, then new Date(timestamp);
\* 10000000000 is 115 days and 64 000 000 milliseconds.
parseDateNumber(value) ==
    LET limit == Big(115, 64000000)
        Less(a, b) == a.hi < b.hi \/ (a.hi = b.hi /\ a.lo < b.lo)
        timestamp == IF value.t = "number" /\ Less(value, limit)
                     THEN Times1000(value) ELSE value
    IN  dateFromNumber(timestamp)

parseDateString(value, local) ==
    IF trim(value.s) = "" \/ value.s = "null" \/ value.s = "undefined"
    THEN Returns(JsNull)
    ELSE LET Checked(time) ==
                 IF time = NaN
                 THEN Warns("invalidDate", value, JsNull)
                 ELSE IF getFullYear(time, local) < 1900
                            \/ getFullYear(time, local) > 2100
                 THEN Warns("dateOutOfRange", value, JsNull)
                 ELSE Returns(time)
         IN  Checked(dateFromString(value.s, local))

parseDate(value, local) ==
    LET Valid(time) ==
            IF typeof(value) = "number" /\ time # NaN THEN Returns(time)
            ELSE IF typeof(value) = "string" THEN parseDateString(value, local)
            ELSE Warns("unsupportedDateType", Str(typeof(value)), JsNull)
    IN  IF Falsy(value) THEN Returns(JsNull)
        ELSE Valid(parseDateNumber(value))

----------------------------------------------------------------------------
(* Objects: a raw feed record and a transformed record are objects with
   own properties; reading a property an object does not have gives
   undefined. *)

Obj(props) == [t |-> "object", props |-> props]

Get(obj, key) ==
    IF obj.t = "object" /\ "props" \in DOMAIN obj /\ key \in DOMAIN obj.props
    THEN obj.props[key]
    ELSE Undefined

\* obj[key] = value
Put(obj, key, value) ==
    Obj([k \in DOMAIN obj.props \cup {key} |->
            IF k = key THEN value ELSE obj.props[k]])

Has(obj, key) == key \in DOMAIN obj.props

RECURSIVE firstAvailableFrom(_, _, _)
firstAvailableFrom(feedListing, fieldNames, k) ==
    IF k > Len(fieldNames) THEN JsNull
    ELSE IF Get(feedListing, fieldNames[k]) \notin {Undefined, JsNull}
         THEN Get(feedListing, fieldNames[k])
         ELSE firstAvailableFrom(feedListing, fieldNames, k + 1)

\* getFirstAvailableField over an object of the feed.
\* The value of the last listed name that has one, not of the first.
firstAvailableLast(feedListing, fieldNames) ==
    LET present == {k \in DOMAIN fieldNames :
                        Get(feedListing, fieldNames[k]) \notin {Undefined, JsNull}}
    IN  IF present = {} THEN JsNull
        ELSE Get(feedListing,
                 fieldNames[CHOOSE k \in present : \A j \in present : j <= k])

firstAvailable(feedListing, fieldNames) ==
    firstAvailableFrom(feedListing, fieldNames, 1)

----------------------------------------------------------------------------
(* DataTransformer.deriveStateCode *)

US_STATE_CODES ==
    {
    "AL", "AK", "AZ", "AR", "CA", "CO", "CT", "DE", "DC", "FL", "GA", "HI",
    "ID", "IL", "IN", "IA", "KS", "KY", "LA", "ME", "MD", "MA", "MI", "MN",
    "MS", "MO", "MT", "NE", "NV", "NH", "NJ", "NM", "NY", "NC", "ND", "OH",
    "OK", "OR", "PA", "RI", "SC", "SD", "TN", "TX", "UT", "VT", "VA", "WA",
    "WV", "WI", "WY"
    }

VALID_STATE_CODES == US_STATE_CODES

STATE_NAME_TO_CODE ==
    LET entries ==
        <<
        <<"alabama", "AL">>, <<"alaska", "AK">>, <<"arizona", "AZ">>,
        <<"arkansas", "AR">>, <<"california", "CA">>, <<"colorado", "CO">>,
        <<"connecticut", "CT">>, <<"delaware", "DE">>,
        <<"district of columbia", "DC">>, <<"florida", "FL">>,
        <<"georgia", "GA">>, <<"hawaii", "HI">>, <<"idaho", "ID">>,
        <<"illinois", "IL">>, <<"indiana", "IN">>, <<"iowa", "IA">>,
        <<"kansas", "KS">>, <<"kentucky", "KY">>, <<"louisiana", "LA">>,
        <<"maine", "ME">>, <<"maryland", "MD">>, <<"massachusetts", "MA">>,
        <<"michigan", "MI">>, <<"minnesota", "MN">>, <<"mississippi", "MS">>,
        <<"missouri", "MO">>, <<"montana", "MT">>, <<"nebraska", "NE">>,
        <<"nevada", "NV">>, <<"new hampshire", "NH">>, <<"new jersey", "NJ">>,
        <<"new mexico", "NM">>, <<"new york", "NY">>,
        <<"north carolina", "NC">>, <<"north dakota", "ND">>, <<"ohio", "OH">>,
        <<"oklahoma", "OK">>, <<"oregon", "OR">>, <<"pennsylvania", "PA">>,
        <<"rhode island", "RI">>, <<"south carolina", "SC">>,
        <<"south dakota", "SD">>, <<"tennessee", "TN">>, <<"texas", "TX">>,
        <<"utah", "UT">>, <<"vermont", "VT">>, <<"virginia", "VA">>,
        <<"washington", "WA">>, <<"west virginia", "WV">>,
        <<"wisconsin", "WI">>, <<"wyoming", "WY">>
        >>
    IN  [name \in {entries[k][1] : k \in DOMAIN entries} |->
            LET k == CHOOSE j \in DOMAIN entries : entries[j][1] = name
            IN  entries[k][2]]

\* table[key] for an object literal: an own property, or one of the
\* properties every object inherits from Object.prototype.
lookup(table, key) ==
    IF key \in DOMAIN table THEN Str(table[key])
    ELSE IF key \in {"constructor", "toString", "valueOf", "hasOwnProperty",
                     "isPrototypeOf", "propertyIsEnumerable", "toLocaleString"}
         THEN JsFunction
    ELSE IF key = "__proto__" THEN JsObject
    ELSE Undefined

deriveFromState(feedListing) ==
    LET Found(state, code) ==
            IF ~Falsy(code) THEN Returns(code)
            ELSE Warns("stateDerivationFailed", state, JsNull)
        Derive(state, stateStr, upper) ==
            IF Len(stateStr) = 2 /\ upper \in VALID_STATE_CODES
            THEN Returns(Str(upper))
            ELSE Found(state, lookup(STATE_NAME_TO_CODE, toLowerCase(stateStr)))
        Trimmed(state, stateStr) ==
            IF Falsy(state) THEN Returns(JsNull)
            ELSE Derive(state, stateStr, toUpperCase(stateStr))
        From(state) == Trimmed(state, trim(StringOf(state)))
    IN  From(firstAvailable(feedListing, <<"state", "state_name">>))

deriveStateCode(feedListing) ==
    LET After(warned, rest) ==
            [value |-> rest.value, calls |-> warned \o rest.calls]
        Provided(providedCode, original, code) ==
            IF ~Falsy(providedCode) /\ code \in VALID_STATE_CODES
            THEN Returns(Str(code))
            ELSE After(IF Falsy(providedCode) THEN <<>>
                       ELSE <<<<"invalidStateCode", Str(original)>>>>,
                       deriveFromState(feedListing))
        Upper(providedCode, original) ==
            Provided(providedCode, original, toUpperCase(original))
        Code(providedCode) == Upper(providedCode, StringOf(providedCode))
    IN  Code(firstAvailable(feedListing, <<"stateCode", "state_code">>))

----------------------------------------------------------------------------
(* DataTransformer.transformListing, field by field in the order of the
   code.  A step names the property it sets, the feed keys it reads and how
   the value is taken over:
     string   if (v) transformed[target] = String(v)
     date     if (v) transformed[target] = this.parseDate(v)
     number   if (v !== null) transformed[target] = this.parseNumber(v)
     boolean  if (v !== null) transformed[target] = this.parseBoolean(v)
     eligible as boolean, and true when v is null
     state    the result of deriveStateCode, if truthy *)

Step(kind, target, keys) == [kind |-> kind, target |-> target, keys |-> keys]

FIELD_STEPS ==
    << Step("string", "external_listing_id",
            <<"externalListingId", "external_listing_id", "assetId",
              "asset_id", "id">>),
       Step("string", "reference_id",
            <<"referenceId", "reference_id", "assetReferenceId",
              "asset_reference_id">>),
       Step("date", "listing_start_date",
            <<"listingStartDate", "listing_start_date", "startDate",
              "start_date">>),
       Step("date", "listing_end_date",
            <<"listingEndDate", "listing_end_date", "endDate", "end_date">>),
       Step("number", "list_price", <<"listPrice", "list_price", "price">>),
       Step("string", "listing_status",
            <<"listingStatus", "listing_status", "status">>),
       Step("string", "property_type",
            <<"propertyType", "property_type", "type">>),
       Step("number", "hs_square_footage",
            <<"squareFootage", "square_footage", "sqft">>),
       Step("number", "hs_bathrooms", <<"bathrooms", "baths">>),
       Step("number", "hs_bedrooms", <<"bedrooms", "beds">>),
       Step("number", "hs_lot_size", <<"lotSize", "lot_size">>),
       Step("string", "lot_size_units", <<"lotSizeUnits", "lot_size_units">>),
       Step("string", "hs_city", <<"city">>),
       Step("string", "hs_state_province", <<"state">>),
       Step("state", "state_code", <<>>),
       Step("string", "hs_zip", <<"zip", "zipCode", "zip_code", "postal_code">>),
       Step("string", "county", <<"county">>),
       Step("string", "hs_address_1",
            <<"addressLine1", "address_line_1", "address1", "address",
              "street">>),
       Step("string", "hs_address_2",
            <<"addressLine2", "address_line_2", "address2", "unit">>),
       Step("string", "listing_url",
            <<"listingUrl", "listing_url", "propertyUrl", "property_url",
              "url">>),
       Step("string", "primary_image_url",
            <<"primaryImageUrl", "primary_image_url", "imageUrl", "image_url",
              "mediaUrl", "media_url">>),
       Step("boolean", "is_new_listing",
            <<"isNewListing", "is_new_listing", "isNew", "is_new">>),
       Step("boolean", "is_featured", <<"isFeatured", "is_featured", "featured">>),
       Step("eligible", "marketing_eligible",
            <<"marketingEligible", "marketing_eligible">>),
       Step("string", "auction_status", <<"auctionStatus", "auction_status">>),
       Step("date", "auction_start_date",
            <<"auctionStartDate", "auction_start_date">>),
       Step("date", "auction_end_date", <<"auctionEndDate", "auction_end_date">>)
    >>

\* One step: the transformed record and the trackWarning calls so far.
applyStep(acc, step, feedListing, local) ==
    LET Assign(value) == [acc EXCEPT !.value = Put(@, step.target, value)]
        AssignDate(date) ==
            [value |-> Put(acc.value, step.target, date.value),
             calls |-> acc.calls \o date.calls]
        AssignState(code) ==
            [value |-> IF Falsy(code.value) THEN acc.value
                       ELSE Put(acc.value, step.target, code.value),
             calls |-> acc.calls \o code.calls]
        Apply(v) ==
            CASE step.kind = "string" ->
                    IF Falsy(v) THEN acc ELSE Assign(Str(StringOf(v)))
              [] step.kind = "date" ->
                    IF Falsy(v) THEN acc ELSE AssignDate(parseDate(v, local))
              [] step.kind = "number" ->
                    IF v = JsNull THEN acc ELSE Assign(parseNumber(v))
              [] step.kind \in {"boolean", "eligible"} ->
                    IF v = JsNull
                    THEN (IF step.kind = "eligible" THEN Assign(Bool(TRUE))
                          ELSE acc)
                    ELSE Assign(parseBoolean(v))
              [] step.kind = "state" ->
                    AssignState(deriveStateCode(feedListing))
    IN  Apply(firstAvailable(feedListing, step.keys))

RECURSIVE applySteps(_, _, _, _)
applySteps(acc, k, feedListing, local) ==
    IF k > Len(FIELD_STEPS) THEN acc
    ELSE applySteps(applyStep(acc, FIELD_STEPS[k], feedListing, local), k + 1,
                    feedListing, local)

\* parts.join(sep)
RECURSIVE join(_, _)
join(parts, sep) ==
    IF parts = <<>> THEN ""
    ELSE IF Len(parts) = 1 THEN parts[1]
    ELSE parts[1] \o sep \o join(Tail(parts), sep)

\* A property of the transformed record as a string, "" when it is not set.
text(rec, key) == IF Falsy(Get(rec, key)) THEN "" ELSE Get(rec, key).s

nonEmpty(parts) ==
    LET Kept(part) == part # "" IN SelectSeq(parts, Kept)

\* hs_name with address 2 taken as the street line when address 1 is missing.
hsNameUnitAlone(rec) ==
    LET street == join(nonEmpty(<<text(rec, "hs_address_1"),
                                  text(rec, "hs_address_2")>>), " ")
        stateZip == nonEmpty(<<text(rec, "hs_state_province"), text(rec, "hs_zip")>>)
        parts == nonEmpty(<<street, text(rec, "hs_city"), join(stateZip, " ")>>)
    IN  IF Len(parts) > 0 THEN join(parts, ", ")
        ELSE IF text(rec, "external_listing_id") # ""
             THEN "Listing " \o text(rec, "external_listing_id")
        ELSE "Listing"

\* The hs_name transformListing generates.
hsName(rec) ==
    LET street == IF text(rec, "hs_address_1") = "" THEN ""
                  ELSE IF text(rec, "hs_address_2") = ""
                       THEN text(rec, "hs_address_1")
                  ELSE text(rec, "hs_address_1") \o " " \o text(rec, "hs_address_2")
        stateZip == nonEmpty(<<text(rec, "hs_state_province"), text(rec, "hs_zip")>>)
        parts == nonEmpty(<<street, text(rec, "hs_city"), join(stateZip, " ")>>)
    IN  IF Len(parts) > 0 THEN join(parts, ", ")
        ELSE IF text(rec, "external_listing_id") # ""
             THEN "Listing " \o text(rec, "external_listing_id")
        ELSE "Listing"

\* transformListing over a feed object: the record and the warnings tracked.
transformFields(feedListing, local) ==
    LET Named(acc) ==
            IF Falsy(Get(acc.value, "hs_name"))
            THEN [acc EXCEPT !.value = Put(@, "hs_name", Str(hsName(acc.value)))]
            ELSE acc
    IN  Named(applySteps([value |-> Obj(<<>>), calls |-> <<>>], 1,
                         feedListing, local))

----------------------------------------------------------------------------
(* DataTransformer.warnings *)

WARNING_TYPES ==
    {"invalidStateCode", "stateDerivationFailed", "invalidDate",
     "dateOutOfRange", "unsupportedDateType", "dateParseError"}

maxExamples == 3

resetWarnings == [type \in WARNING_TYPES |-> [count |-> 0, examples |-> <<>>]]

trackWarningUncapped(w, type, example) ==
    IF type \in DOMAIN w
    THEN [w EXCEPT ![type] = [count |-> @.count + 1,
                              examples |-> Append(@.examples, example)]]
    ELSE w

trackWarning(w, type, example) ==
    IF type \in DOMAIN w
    THEN [w EXCEPT ![type] =
            [count |-> @.count + 1,
             examples |-> IF Len(@.examples) < maxExamples
                          THEN Append(@.examples, example)
                          ELSE @.examples]]
    ELSE w

\* The warnings after the trackWarning calls a method made.
RECURSIVE trackAll(_, _)
trackAll(w, calls) ==
    IF calls = <<>> THEN w
    ELSE trackAll(trackWarning(w, calls[1][1], calls[1][2]), Tail(calls))

\* No method has returned yet.
NoReturn == [t |-> "none"]

\* A method returns: its value, and the warnings it tracked are counted.
Return(method, r) ==
    /\ ret' = r.value
    /\ warnings' = trackAll(warnings, r.calls)
    /\ tracked' = tracked \o r.calls
    /\ called' = method

InitCoerceIdle ==
    /\ arg = Undefined
    /\ tz = 0
    /\ ret = NoReturn
    /\ called = "none"
    /\ warnings = resetWarnings
    /\ tracked = <<>>

----------------------------------------------------------------------------
(* Sequential import runs of canonical records *)

\* The process has read no configuration and done nothing.
InitProcess ==
    /\ env = Obj(<<>>)
    /\ config = Undefined
    /\ log = <<>>
    /\ attempt = 0
    /\ lastError = Undefined
    /\ rpc = "off"
    /\ chunkI = Undefined
    /\ batches = <<>>
    /\ currentLevel = JsNull

\* The process starts in one of the given environments, with nothing
\* loaded.
InitProcessIn(environments) ==
    /\ env \in environments
    /\ config = Undefined
    /\ log = <<>>
    /\ attempt = 0
    /\ lastError = Undefined
    /\ rpc = "start"
    /\ chunkI = Undefined
    /\ batches = <<>>
    /\ currentLevel = JsNull

InitStoreEmpty == store = <<>>

InitRuns ==
    /\ runs = 0
    /\ pc = [p \in Procs |-> "idle"]
    /\ dryRun = [p \in Procs |-> FALSE]
    /\ batchSize = [p \in Procs |-> BATCH_SIZE_DEFAULT]
    /\ allListings = [p \in Procs |-> <<>>]
    /\ batchStart = [p \in Procs |-> 1]
    /\ totalResults = [p \in Procs |-> NoResults]
    /\ listings = [p \in Procs |-> <<>>]
    /\ i = [p \in Procs |-> 1]
    /\ existing = [p \in Procs |-> 0]
    /\ results = [p \in Procs |-> NoResults]
    /\ threw = [p \in Procs |-> FALSE]
    /\ lastCall = [p \in Procs |-> NoCall]
    /\ mutated = [p \in Procs |-> {}]
    /\ existingProperties = [p \in Procs |-> {}]
    /\ propIdx = [p \in Procs |-> 1]
    /\ trace = [p \in Procs |-> <<>>]

InitTransformIdle ==
    /\ feedListings = <<>>
    /\ transformed = <<>>
    /\ tpc = "off"
    /\ InitCoerceIdle

InitRemoteReady ==
    /\ schemaExists = TRUE
    /\ remoteProps = {}

Init == InitStoreEmpty /\ InitRuns /\ InitProcess /\ InitRemoteReady /\ InitTransformIdle

\* One run at a time: a run starts when no other is under way.
StartSequential ==
    /\ \A q \in Procs : Idle(q)
    /\ StartRun(1, IdPool, MaxLen, {BATCH_SIZE_DEFAULT}, {FALSE}, "batch", MaxRuns)

Next ==
    \/ StartSequential
    \/ \E p \in Procs : NextBatch(p)
    \/ \E p \in Procs : Search(p)
    \/ \E p \in Procs : Write(p)
    \/ \E p \in Procs : Aggregate(p)
    \/ \E p \in Procs : Finish(p)

Spec == Init /\ [][Next]_vars

----------------------------------------------------------------------------
(* One run over canonical records of every shape, against any store that
   earlier runs can have left without a duplicate *)

CleanStores ==
    {s \in ListsUpTo(Ids, Cardinality(Ids)) :
        \A j, k \in DOMAIN s : s[j] = s[k] => j = k}

InitPayload ==
    /\ store \in CleanStores
    /\ InitRuns
    /\ InitProcess
    /\ InitRemoteReady
    /\ InitTransformIdle

StartPayload ==
    /\ \A q \in Procs : Idle(q)
    /\ StartRun(1, CanonicalPool, MaxPayloadLen, {BATCH_SIZE_DEFAULT}, {FALSE}, "batch",
                SingleRun)

NextPayload ==
    \/ StartPayload
    \/ \E p \in Procs : NextBatch(p)
    \/ \E p \in Procs : Search(p)
    \/ \E p \in Procs : Write(p)
    \/ \E p \in Procs : Aggregate(p)
    \/ \E p \in Procs : Finish(p)

SpecPayload == InitPayload /\ [][NextPayload]_vars

----------------------------------------------------------------------------
(* Two concurrent import runs *)

StartConcurrent(p) ==
    StartRun(p, IdPool, MaxRaceLen, {BATCH_SIZE_DEFAULT}, {FALSE}, "batch", MaxRuns)

NextRace ==
    \/ \E p \in Procs : StartConcurrent(p)
    \/ \E p \in Procs : NextBatch(p)
    \/ \E p \in Procs : Search(p)
    \/ \E p \in Procs : Write(p)
    \/ \E p \in Procs : Aggregate(p)

SpecRace == Init /\ [][NextRace]_vars

----------------------------------------------------------------------------
(* processListings with a batch size smaller than the list *)

StartChunked ==
    /\ \A q \in Procs : Idle(q)
    /\ StartRun(1, IdPool, MaxChunkLen, 1..MaxBatch, {FALSE}, "batch", SingleRun)

NextChunked ==
    \/ StartChunked
    \/ \E p \in Procs : NextBatch(p)
    \/ \E p \in Procs : Search(p)
    \/ \E p \in Procs : Write(p)
    \/ \E p \in Procs : Aggregate(p)
    \/ \E p \in Procs : Finish(p)

SpecChunked == Init /\ [][NextChunked]_vars

----------------------------------------------------------------------------
(* Importer.run from initialize on, against any remote schema *)

InitRemoteAny ==
    /\ schemaExists \in BOOLEAN
    /\ remoteProps \in SUBSET {LISTINGS_PROPERTIES[k] : k \in DOMAIN LISTINGS_PROPERTIES}

InitImport == InitStoreEmpty /\ InitRuns /\ InitProcess /\ InitRemoteAny /\ InitTransformIdle

StartImport ==
    /\ \A q \in Procs : Idle(q)
    /\ StartRun(1, IdPool, MaxLen, {BATCH_SIZE_DEFAULT}, BOOLEAN, "ensureObject",
                MaxRuns)

NextImport ==
    \/ StartImport
    \/ \E p \in Procs : EnsureListingsObject(p)
    \/ \E p \in Procs : GetExistingProperties(p)
    \/ \E p \in Procs : CreatePropertyIfNotExists(p)
    \/ \E p \in Procs : NextBatch(p)
    \/ \E p \in Procs : Search(p)
    \/ \E p \in Procs : Write(p)
    \/ \E p \in Procs : Aggregate(p)
    \/ \E p \in Procs : Finish(p)

SpecImport == InitImport /\ [][NextImport]_vars

----------------------------------------------------------------------------
(* transformListings over any raw feed *)

InitTransform ==
    /\ InitStoreEmpty
    /\ InitRuns
    /\ InitProcess
    /\ InitRemoteReady
    /\ feedListings \in ListsUpTo(RawPool, MaxFeed)
    /\ transformed = <<>>
    /\ tpc = "ready"
    /\ InitCoerceIdle

Transform ==
    /\ tpc = "ready"
    /\ transformed' = transformListings(feedListings)
    /\ tpc' = "done"
    /\ warnings' = resetWarnings
    /\ tracked' = <<>>
    /\ UNCHANGED <<remoteVars, runs, pc, outerVars, innerVars, mutated,
                   initVars, feedListings, arg, tz, ret, called, procVars>>

NextTransform == Transform

SpecTransform == InitTransform /\ [][NextTransform]_vars

----------------------------------------------------------------------------
(* The coercers, each called once on any value of a feed *)

NonValues == {JsNull, Undefined}

\* Values that are no number and no string.
OtherValues == {Bool(TRUE), Bool(FALSE), JsObject}

NotNumbers == {NaN, Infinity}

\* 0, small numbers, epoch seconds and epoch milliseconds of
\* 2024-01-15T12:10:45Z, 2101-01-01T00:00:00.000Z as milliseconds and a
\* negative number of milliseconds.
Numbers ==
    {Num(0), Num(1), Num(42), Num(-86400), Num(1705320645),
     Times1000(Num(1705320645)), Big(19737, 43845123),
     Big(daysFromCivil(2101, 1, 1), 0), Big(-2000, 0),
     Num(5000000), Times1000(Num(5000000)), Num(10000000),
     Big(115, 63999999), Big(115, 64000000)}

\* Strings that denote neither a number nor a date.
EmptyStrings == {Str(""), Str(" ")}
WordStrings ==
    {Str("abc"), Str("true"), Str("YES"), Str("no"), Str("null"),
     Str("undefined"), Str("not-a-date"), Str("invalid-date")}
NumberStrings == {Str("1"), Str("42"), Str(" 3.50abc"), Str("-7")}

DateStrings ==
    {Str(d \o time) :
        d \in {"1899-12-31", "1900-01-01", "2024-01-15", "2024-02-29",
               "2100-12-31", "2101-01-01"},
        time \in {"", "T00:00:00Z", "T14:30:45Z", "T20:00:00-05:00",
                  "T23:30:00", "T01:00:00+02:00"}}
BadDateStrings == {Str("2024-13-01")}

ValuePool ==
    NonValues \cup OtherValues \cup NotNumbers \cup Numbers \cup EmptyStrings
        \cup WordStrings \cup NumberStrings \cup DateStrings \cup BadDateStrings

\* Time zones of the process: New York in winter, UTC, Berlin in summer.
TimeZones == {-300, 0, 120}

InitCoerce ==
    /\ InitStoreEmpty
    /\ InitRuns
    /\ InitProcess
    /\ InitRemoteReady
    /\ feedListings = <<>>
    /\ transformed = <<>>
    /\ tpc = "off"
    /\ arg \in ValuePool
    /\ tz \in TimeZones
    /\ ret = NoReturn
    /\ called = "none"
    /\ warnings = resetWarnings
    /\ tracked = <<>>

notTransformer ==
    <<remoteVars, runs, pc, outerVars, innerVars, mutated, initVars,
      feedListings, transformed, tpc, procVars>>

ParseNumber ==
    /\ called = "none"
    /\ ret' = parseNumber(arg)
    /\ called' = "parseNumber"
    /\ UNCHANGED <<notTransformer, arg, tz, warnings, tracked>>

ParseBoolean ==
    /\ called = "none"
    /\ ret' = parseBoolean(arg)
    /\ called' = "parseBoolean"
    /\ UNCHANGED <<notTransformer, arg, tz, warnings, tracked>>

\* (A string that starts with a number is left out: Date reads some of
\* them as dates by rules outside the ISO format.)
ParseDate ==
    /\ called = "none"
    /\ arg \notin NumberStrings
    /\ Return("parseDate", parseDate(arg, tz))
    /\ UNCHANGED <<notTransformer, arg, tz>>

NextCoerce ==
    \/ ParseNumber
    \/ ParseBoolean
    \/ ParseDate

SpecCoerce == InitCoerce /\ [][NextCoerce]_vars

----------------------------------------------------------------------------
(* trackWarning and resetWarnings, called in any order *)

\* Two of the categories and a type that is none.
TrackTypes == {"invalidDate", "stateDerivationFailed", "other"}
TrackExamples == {Str("x"), Str("y")}

InitWarnings ==
    /\ InitStoreEmpty
    /\ InitRuns
    /\ InitProcess
    /\ InitRemoteReady
    /\ InitTransformIdle

TrackWarning(type, example) ==
    /\ Len(tracked) < MaxTracks
    /\ warnings' = trackWarning(warnings, type, example)
    /\ tracked' = Append(tracked, <<type, example>>)
    /\ UNCHANGED <<notTransformer, arg, tz, ret, called>>

ResetWarnings ==
    /\ warnings' = resetWarnings
    /\ tracked' = <<>>
    /\ UNCHANGED <<notTransformer, arg, tz, ret, called>>

NextWarnings ==
    \/ \E type \in TrackTypes, example \in TrackExamples :
            TrackWarning(type, example)
    \/ ResetWarnings

SpecWarnings == InitWarnings /\ [][NextWarnings]_vars

----------------------------------------------------------------------------
(* transformListing and deriveStateCode, each called once on a feed record *)

\* The object with the listed properties; a property whose value is
\* undefined is one the object does not have.
RECURSIVE Rec(_)
Rec(pairs) ==
    IF pairs = <<>> THEN Obj(<<>>)
    ELSE LET front == Rec(SubSeq(pairs, 1, Len(pairs) - 1))
             last == pairs[Len(pairs)]
         IN  IF last[2] = Undefined THEN front ELSE Put(front, last[1], last[2])

\* Records that differ in their state fields.
StateRecords ==
    {Rec(<<<<"external_listing_id", Str("A")>>, <<"stateCode", code>>,
           <<"state", state>>, <<"state_name", name>>>>) :
        code \in {Undefined, Str("CA"), Str("ny"), Str("ZZ"), Str(" ca ")},
        state \in {Undefined, JsNull, Str(""), Str("California"),
                   Str(" new york "), Str("TX"), Str("tx "), Str("Atlantis"),
                   Str("constructor"), Num(5)},
        name \in {Undefined, Str("Nevada")}}

\* Records that differ in identifier and address.
AddressRecords ==
    {Rec(<<<<"id", id>>, <<"address", address>>, <<"unit", unit>>,
           <<"city", city>>, <<"state", state>>, <<"zip", zip>>>>) :
        id \in {Undefined, Str("A"), Num(7)},
        address \in {Undefined, Str("123 Main St")},
        unit \in {Undefined, Str("Apt 4")},
        city \in {Undefined, Str(""), Str("Austin")},
        state \in {Undefined, Str("TX")},
        zip \in {Undefined, Str("78701"), Num(78701)}}

\* Records that differ in two of their dates.
DateRecords ==
    LET inputs == {Undefined, JsNull, Str("2024-01-15"),
                   Str("2024-01-15T14:30:45Z"),
                   Str("2024-01-15T20:00:00-05:00"), Num(1705320645),
                   Times1000(Num(1705320645)), Str("not-a-date")}
    IN  {Rec(<<<<"external_listing_id", Str("A")>>,
               <<"city", Str("Test City")>>,
               <<"listing_start_date", start>>,
               <<"auction_end_date", end>>>>) :
            start \in inputs, end \in inputs}

\* Records that differ in their features and in property_type.
FeatureRecords ==
    {Rec(<<<<"external_listing_id", Str("A")>>, <<"property_type", type>>,
           <<"square_footage", sqft>>, <<"bedrooms", beds>>,
           <<"lot_size", lot>>, <<"price", price>>>>) :
        type \in {Undefined, Str("custom_type")},
        sqft \in {Undefined, Num(0), Num(2000), Str("abc")},
        beds \in {Undefined, Num(3)},
        lot \in {Undefined, Num(8000), Str("20000")},
        price \in {Undefined, Num(400000)}}

AUCTION_STATUSES == {"not_on_auction", "upcoming", "active", "ended", "sold"}

\* Records that differ in auction_status.
StatusRecords ==
    {Rec(<<<<"external_listing_id", Str("A")>>, <<"city", city>>,
           <<"marketing_eligible", eligible>>, <<"auction_status", status>>>>) :
        city \in {Undefined, Str("Test City")},
        eligible \in {Undefined, Bool(FALSE), Str("yes")},
        status \in {Undefined, Str("")} \cup {Str(a) : a \in AUCTION_STATUSES}
                    \cup {Str("For Sale"), Str("Bidding Started"),
                          Str("Upcoming"), Str("Ended"), Str("Sold"),
                          Str("Nonsense")}}

\* Records that differ in the two spellings of the marketing flag.
EligibilityRecords ==
    LET flags == {Undefined, JsNull, Bool(TRUE), Bool(FALSE), Str("Yes"),
                  Str("no"), Str(""), Num(0), Num(1)}
    IN  {Rec(<<<<"external_listing_id", Str("A")>>,
               <<"marketingEligible", camel>>,
               <<"marketing_eligible", snake>>>>) :
            camel \in flags, snake \in flags}

RawListings ==
    StateRecords \cup AddressRecords \cup DateRecords \cup FeatureRecords
        \cup StatusRecords \cup EligibilityRecords

InitListing ==
    /\ InitStoreEmpty
    /\ InitRuns
    /\ InitProcess
    /\ InitRemoteReady
    /\ feedListings = <<>>
    /\ transformed = <<>>
    /\ tpc = "off"
    /\ arg \in RawListings
    /\ tz \in TimeZones
    /\ ret = NoReturn
    /\ called = "none"
    /\ warnings = resetWarnings
    /\ tracked = <<>>

DeriveStateCode ==
    /\ called = "none"
    /\ Return("deriveStateCode", deriveStateCode(arg))
    /\ UNCHANGED <<notTransformer, arg, tz>>

TransformListing ==
    /\ called = "none"
    /\ Return("transformListing", transformFields(arg, tz))
    /\ UNCHANGED <<notTransformer, arg, tz>>

NextListing ==
    \/ DeriveStateCode
    \/ TransformListing

SpecListing == InitListing /\ [][NextListing]_vars

----------------------------------------------------------------------------
(* classifyPropertyType: the ordered rule chain over square footage,
   bedrooms, bathrooms and lot size.  The thresholds are the ones under which
   the classifications listed for inferHsListingType and inferPropertyType
   come out. *)

\* The thresholds of the rules, by rule and feature.
THRESHOLDS ==
    [ land |-> [maxSqft |-> 200, minLot |-> 5000],
      manufactured |-> [minSqft |-> 400, maxSqft |-> 1400, maxBeds |-> 3,
                        maxBaths |-> 2, minLot |-> 3000],
      apartments |-> [minBeds |-> 8, minBaths |-> 8],
      multi_family |-> [minBeds |-> 4, minBaths |-> 4],
      condo |-> [maxSqft |-> 1200, maxLot |-> 1500],
      townhouse |-> [minSqft |-> 1200, maxSqft |-> 2400, maxLot |-> 4000] ]

\* The features coerced to numbers, 0 when absent or not a number.
featureNumbers(features) ==
    LET OrZero(n) == IF n = JsNull THEN 0 ELSE n.hi * MS_PER_DAY + n.lo
    IN  [key \in {"squareFootage", "bedrooms", "bathrooms", "lotSize"} |->
            OrZero(parseNumber(Get(features, key)))]

\* The rule of one category, over the coerced features.
matches(category, numbers) ==
    LET sqft == numbers.squareFootage
        beds == numbers.bedrooms
        baths == numbers.bathrooms
        lot == numbers.lotSize
    IN  CASE category = "land" ->
                sqft <= THRESHOLDS.land.maxSqft /\ lot >= THRESHOLDS.land.minLot
          [] category = "manufactured" ->
                /\ sqft >= THRESHOLDS.manufactured.minSqft
                /\ sqft <= THRESHOLDS.manufactured.maxSqft
                /\ beds <= THRESHOLDS.manufactured.maxBeds
                /\ baths <= THRESHOLDS.manufactured.maxBaths
                /\ lot >= THRESHOLDS.manufactured.minLot
          [] category = "apartments" ->
                beds >= THRESHOLDS.apartments.minBeds \/ baths >= THRESHOLDS.apartments.minBaths
          [] category = "multi_family" ->
                beds >= THRESHOLDS.multi_family.minBeds \/ baths >= THRESHOLDS.multi_family.minBaths
          [] category = "condo" ->
                sqft <= THRESHOLDS.condo.maxSqft /\ lot <= THRESHOLDS.condo.maxLot
          [] category = "townhouse" ->
                /\ sqft >= THRESHOLDS.townhouse.minSqft
                /\ sqft <= THRESHOLDS.townhouse.maxSqft
                /\ lot <= THRESHOLDS.townhouse.maxLot
          [] category = "house" -> TRUE

RULE_ORDER ==
    <<"land", "manufactured", "apartments", "multi_family", "condo",
      "townhouse", "house">>

\* The first category of the order, from position k on, whose rule matches.
RECURSIVE firstMatch(_, _, _)
firstMatch(order, k, numbers) ==
    IF k >= Len(order) \/ matches(order[k], numbers) THEN order[k]
    ELSE firstMatch(order, k + 1, numbers)

\* The chain with the multi_family rule tried before the apartments rule.
classifyMultiFamilyFirst(features) ==
    firstMatch(<<"land", "manufactured", "multi_family", "apartments",
                 "condo", "townhouse", "house">>, 1, featureNumbers(features))

classifyPropertyType(features) ==
    firstMatch(RULE_ORDER, 1, featureNumbers(features))

FeatureInputs ==
    {Rec(<<<<"squareFootage", sqft>>, <<"bedrooms", beds>>,
           <<"bathrooms", baths>>, <<"lotSize", lot>>>>) :
        sqft \in {Undefined, JsNull, Num(0), Num(200), Num(400), Num(800),
                  Num(1400), Num(1500), Num(2000), Num(3000), Str("0"),
                  Str("abc")},
        beds \in {Undefined, JsNull, Num(0), Num(1), Num(2), Num(3), Num(4),
                  Num(8)},
        baths \in {Undefined, Num(0), Num(1), Num(2), Num(4), Num(8)},
        lot \in {Undefined, JsNull, Num(0), Num(500), Num(2000), Num(3000),
                 Num(5000), Num(8000), Num(10000), Str("15000")}}

InitClassify ==
    /\ InitStoreEmpty
    /\ InitRuns
    /\ InitProcess
    /\ InitRemoteReady
    /\ feedListings = <<>>
    /\ transformed = <<>>
    /\ tpc = "off"
    /\ arg \in FeatureInputs
    /\ tz = 0
    /\ ret = NoReturn
    /\ called = "none"
    /\ warnings = resetWarnings
    /\ tracked = <<>>

ClassifyPropertyType ==
    /\ called = "none"
    /\ ret' = Str(classifyPropertyType(arg))
    /\ called' = "classifyPropertyType"
    /\ UNCHANGED <<notTransformer, arg, tz, warnings, tracked>>

NextClassify == ClassifyPropertyType

SpecClassify == InitClassify /\ [][NextClassify]_vars

----------------------------------------------------------------------------
(* getFirstAvailableField, called once on a record and a list of names *)

ResolveKeys == {"a", "b", "c"}

\* Values of a property: missing, null, the falsy values and a truthy one.
ResolveValues ==
    {Undefined, JsNull, Num(0), Bool(FALSE), Str(""), Str("x")}

\* The arguments of a call: a record and up to three names, in any order and
\* with repetitions.
ResolveCalls ==
    {[feedListing |-> Rec(<<<<"a", a>>, <<"b", b>>, <<"c", c>>>>),
      fieldNames |-> names] :
        a \in ResolveValues, b \in ResolveValues, c \in {Undefined, Str("x")},
        names \in UNION {[1..n -> ResolveKeys] : n \in 0..3}}

InitResolve ==
    /\ InitStoreEmpty
    /\ InitRuns
    /\ InitProcess
    /\ InitRemoteReady
    /\ feedListings = <<>>
    /\ transformed = <<>>
    /\ tpc = "off"
    /\ arg \in ResolveCalls
    /\ tz = 0
    /\ ret = NoReturn
    /\ called = "none"
    /\ warnings = resetWarnings
    /\ tracked = <<>>

GetFirstAvailableField ==
    /\ called = "none"
    /\ ret' = firstAvailable(arg.feedListing, arg.fieldNames)
    /\ called' = "getFirstAvailableField"
    /\ UNCHANGED <<notTransformer, arg, tz, warnings, tracked>>

NextResolve == GetFirstAvailableField

SpecResolve == InitResolve /\ [][NextResolve]_vars

----------------------------------------------------------------------------
(* Config: the configuration read from the environment.  The repository
   holds two versions of it: one parses the numbers with parseInt alone
   and loads in its constructor, the other parses them with parseIntSafe
   and loads at the first get. *)

\* parseInt(v, 10): the integer at the front of String(v), after white
\* space and a sign.
parseInt(v) ==
    LET Digits(neg, int) ==
            IF int = "" THEN NaN
            ELSE IF neg THEN Negated(digitsNumber(int))
            ELSE digitsNumber(int)
        Signed(str) ==
            Digits(startsWith(str, "-"),
                   digitPrefix(IF startsWith(str, "-") \/ startsWith(str, "+")
                               THEN Tail(str) ELSE str))
    IN  Signed(trimStart(StringOf(v)))

\* a || b
OrElse(a, b) == IF Falsy(a) THEN b ELSE a

parseIntSafe(value, defaultValue) ==
    LET Checked(parsed) ==
            IF parsed = NaN \/ parsed.hi < 0 \/ IsZero(parsed)
            THEN defaultValue
            ELSE parsed
    IN  IF Falsy(value) THEN defaultValue ELSE Checked(parseInt(value))

\* Config.loadConfig with parseInt alone; validate throws without a token
\* or a feed URL.
loadConfigParseInt(environment) ==
    LET Validated(cfg) ==
            IF Falsy(Get(cfg, "hubspotAccessToken")) \/ Falsy(Get(cfg, "feedUrl"))
            THEN Threw
            ELSE cfg
    IN Validated(Rec(<<
        <<"hubspotAccessToken", Get(environment, "HUBSPOT_ACCESS_TOKEN")>>,
        <<"feedUrl", Get(environment, "FEED_URL")>>,
        <<"logLevel", OrElse(Get(environment, "LOG_LEVEL"), Str("info"))>>,
        <<"retryAttempts",
          parseInt(OrElse(Get(environment, "RETRY_ATTEMPTS"), Str("3")))>>,
        <<"retryDelay",
          parseInt(OrElse(Get(environment, "RETRY_DELAY"), Str("1000")))>>,
        <<"batchSize",
          parseInt(OrElse(Get(environment, "BATCH_SIZE"), Str("100")))>> >>))

\* Config.loadConfig with parseIntSafe; validate throws without a token and,
\* once a dry run or a feed is configured, without the feed of the
\* configured source.
loadConfigParseIntSafe(environment) ==
    LET Validated(cfg) ==
            IF Falsy(Get(cfg, "hubspotAccessToken")) THEN Threw
            ELSE IF Falsy(Get(cfg, "dryRun"))
                    /\ Falsy(OrElse(Get(cfg, "feedUrl"),
                                    Get(cfg, "feedFilePath")))
            THEN cfg
            ELSE IF Get(cfg, "feedSource") = Str("url")
                    /\ Falsy(Get(cfg, "feedUrl"))
            THEN Threw
            ELSE IF Get(cfg, "feedSource") = Str("file")
                    /\ Falsy(Get(cfg, "feedFilePath"))
            THEN Threw
            ELSE cfg
    IN Validated(Rec(<<
        <<"hubspotAccessToken",
          OrElse(Get(environment, "HUBSPOT_ACCESS_TOKEN"),
                 Get(environment, "HUBSPOT_API_TOKEN"))>>,
        <<"feedUrl", Get(environment, "FEED_URL")>>,
        <<"feedSource", OrElse(Get(environment, "FEED_SOURCE"), Str("url"))>>,
        <<"feedFilePath", Get(environment, "FEED_FILE_PATH")>>,
        <<"dryRun", Bool(Get(environment, "DRY_RUN") = Str("true"))>>,
        <<"logLevel", OrElse(Get(environment, "LOG_LEVEL"), Str("info"))>>,
        <<"retryAttempts",
          parseIntSafe(Get(environment, "RETRY_ATTEMPTS"), Num(3))>>,
        <<"retryDelay",
          parseIntSafe(Get(environment, "RETRY_DELAY"), Num(1000))>>,
        <<"batchSize",
          parseIntSafe(Get(environment, "BATCH_SIZE"), Num(100))>> >>))

\* What either version of the configuration makes of an environment.
ConfigsOf(environment) ==
    {loadConfigParseInt(environment), loadConfigParseIntSafe(environment)}

----------------------------------------------------------------------------
(* HubSpotClient.retry and FeedFetcher.fetchFeed: one call of either, each
   attempt failing or succeeding *)

\* The integer a small number stands for.
IntOf(v) == v.hi * MS_PER_DAY + v.lo

\* The environments of a retry: RETRY_ATTEMPTS and RETRY_DELAY as a
\* deployment may set them.
RetryEnvs ==
    {Rec(<<<<"HUBSPOT_ACCESS_TOKEN", Str("token")>>,
           <<"FEED_URL", Str("http://feed")>>,
           <<"RETRY_ATTEMPTS", attempts>>, <<"RETRY_DELAY", delay>>>>) :
        attempts \in {Undefined, Str(""), Str("0"), Str("1"), Str("2"),
                      Str("4"), Str("-1"), Str("abc")},
        delay \in {Undefined, Str("500")}}

InitRetry ==
    /\ InitStoreEmpty
    /\ InitRuns
    /\ InitRemoteReady
    /\ InitTransformIdle
    /\ InitProcessIn(RetryEnvs)

notProcess ==
    <<remoteVars, runs, pc, outerVars, innerVars, mutated, initVars,
      feedListings, tpc, arg, tz, warnings, tracked>>
chunkVars == <<transformed, chunkI, batches>>
loggerVars == <<currentLevel>>
retryVars == <<log, attempt, lastError>>

\* The configuration is loaded; the constructors of HubSpotClient and
\* FeedFetcher copy retryAttempts and retryDelay from it.
LoadConfig ==
    /\ rpc = "start"
    /\ config' \in ConfigsOf(env) \ {Threw}
    /\ rpc' = "loaded"
    /\ UNCHANGED <<notProcess, loggerVars, ret, called, env, retryVars, chunkVars>>

\* The error attempt k fails with.
FailureOf(k) == [t |-> "error", message |-> "failure", of |-> k]

\* What the loop throws once it is left: retry throws lastError itself,
\* fetchFeed an Error made of lastError.message, which is a TypeError when
\* lastError is undefined.
thrownAfterLoop(method, error) ==
    IF method = "retry" THEN [t |-> "thrown", error |-> error]
    ELSE IF error = Undefined
    THEN [t |-> "thrown",
          error |-> [t |-> "error", message |-> "TypeError", of |-> 0]]
    ELSE [t |-> "thrown",
          error |-> [t |-> "error", message |-> "Failed to fetch feed",
                     of |-> error.of]]

\* attempt <= this.retryAttempts
attemptLeft(a, retryAttempts) ==
    retryAttempts.t = "number" /\ a <= IntOf(retryAttempts)

\* this.retryDelay * attempt
delayAfter(retryDelay, a) ==
    IF retryDelay.t = "number" THEN IntOf(retryDelay) * a ELSE NaN

\* The head of the for loop with attempt a: the operation is invoked, or
\* the loop is left and the method throws.
EnterLoop(method, a, error) ==
    /\ attempt' = a
    /\ IF attemptLeft(a, Get(config, "retryAttempts"))
       THEN /\ log' = Append(log, <<"call", a>>)
            /\ rpc' = "awaiting"
            /\ ret' = NoReturn
       ELSE /\ log' = log
            /\ rpc' = "done"
            /\ ret' = thrownAfterLoop(method, error)

CallRetry ==
    /\ rpc = "loaded"
    /\ \E method \in {"retry", "fetchFeed"} :
          /\ called' = method
          /\ EnterLoop(method, 1, Undefined)
    /\ lastError' = Undefined
    /\ UNCHANGED <<notProcess, loggerVars, env, config, chunkVars>>

\* The awaited operation succeeds: its result is returned.
AttemptSucceeds ==
    /\ rpc = "awaiting"
    /\ ret' = [t |-> "result", of |-> attempt]
    /\ rpc' = "done"
    /\ UNCHANGED <<notProcess, loggerVars, called, env, config, retryVars, chunkVars>>

\* The awaited operation fails: the error is kept and, when an attempt is
\* left, the loop sleeps; otherwise it goes on to its head, finds no
\* attempt left and throws.
AttemptFails ==
    /\ rpc = "awaiting"
    /\ lastError' = FailureOf(attempt)
    /\ IF attempt < IntOf(Get(config, "retryAttempts"))
       THEN /\ log' = log \o <<<<"fail", attempt>>,
                                 <<"sleep", delayAfter(Get(config, "retryDelay"),
                                                       attempt)>>>>
            /\ rpc' = "sleeping"
            /\ UNCHANGED <<attempt, ret>>
       ELSE /\ log' = Append(log, <<"fail", attempt>>)
            /\ attempt' = attempt + 1
            /\ rpc' = "done"
            /\ ret' = thrownAfterLoop(called, FailureOf(attempt))
    /\ UNCHANGED <<notProcess, loggerVars, called, env, config, chunkVars>>

\* The sleep is over: the loop goes on to its head.
Wake ==
    /\ rpc = "sleeping"
    /\ EnterLoop(called, attempt + 1, lastError)
    /\ UNCHANGED <<notProcess, loggerVars, called, env, config, lastError, chunkVars>>

NextRetry ==
    \/ LoadConfig
    \/ CallRetry
    \/ AttemptSucceeds
    \/ AttemptFails
    \/ Wake

SpecRetry == InitRetry /\ [][NextRetry]_vars

----------------------------------------------------------------------------
(* Importer.processListings: the loop that cuts the listings into batches,
   with the batch size the configuration gives *)

\* BATCH_SIZE as a deployment may set it.
BatchEnvs ==
    {Rec(<<<<"HUBSPOT_ACCESS_TOKEN", Str("token")>>,
           <<"FEED_URL", Str("http://feed")>>, <<"BATCH_SIZE", size>>>>) :
        size \in {Undefined, Str(""), Str("0"), Str("1"), Str("2"), Str("3"),
                  Str("5"), Str("-1"), Str("abc")}}

InitChunks ==
    /\ InitStoreEmpty
    /\ InitRuns
    /\ InitRemoteReady
    /\ feedListings = <<>>
    /\ transformed \in {[k \in 1..n |-> k] : n \in 0..MaxChunkLen}
    /\ tpc = "off"
    /\ InitCoerceIdle
    /\ InitProcessIn(BatchEnvs)

\* a + b
plus(a, b) ==
    IF a = NaN \/ b = NaN THEN NaN ELSE Num(IntOf(a) + IntOf(b))

\* Array.prototype.slice(start, end): NaN counts as 0, a negative index
\* counts from the end, and both ends are kept within the array.
sliceArray(list, start, end) ==
    LET Relative(v) ==
            IF v = NaN THEN 0
            ELSE IF IntOf(v) < 0
                 THEN (IF Len(list) + IntOf(v) < 0 THEN 0
                       ELSE Len(list) + IntOf(v))
                 ELSE (IF IntOf(v) > Len(list) THEN Len(list) ELSE IntOf(v))
    IN  SubSeq(list, Relative(start) + 1, Relative(end))

\* listings.slice(i, i + this.batchSize)
chunkOf(list, at, size) == sliceArray(list, at, plus(at, size))

\* const batches = []; let i = 0
ProcessListings ==
    /\ rpc = "loaded"
    /\ called' = "processListings"
    /\ chunkI' = Num(0)
    /\ batches' = <<>>
    /\ rpc' = "chunking"
    /\ UNCHANGED <<notProcess, loggerVars, ret, env, config, retryVars, transformed>>

\* i < listings.length
moreToChunk(at, list) == at # NaN /\ IntOf(at) < Len(list)

\* One round of the loop: the next batch is pushed and i moves on.
PushBatch ==
    /\ rpc = "chunking"
    /\ moreToChunk(chunkI, transformed)
    /\ Len(batches) < MaxRounds
    /\ batches' = Append(batches,
                         chunkOf(transformed, chunkI, Get(config, "batchSize")))
    /\ chunkI' = plus(chunkI, Get(config, "batchSize"))
    /\ UNCHANGED <<notProcess, loggerVars, ret, called, env, config, retryVars,
                   transformed, rpc>>

\* The loop is left.
EndChunking ==
    /\ rpc = "chunking"
    /\ ~moreToChunk(chunkI, transformed)
    /\ rpc' = "done"
    /\ UNCHANGED <<notProcess, loggerVars, ret, called, env, config, retryVars, chunkVars>>

NextChunks ==
    \/ LoadConfig
    \/ ProcessListings
    \/ PushBatch
    \/ EndChunking

SpecChunks == InitChunks /\ [][NextChunks]_vars

----------------------------------------------------------------------------
(* Logger: messages logged at the four levels under a configured LOG_LEVEL *)

\* this.levels
LEVELS == [error |-> 0, warn |-> 1, info |-> 2, debug |-> 3]

\* this.levels[name]
levelOf(name) ==
    IF name \in DOMAIN LEVELS THEN Num(LEVELS[name]) ELSE Undefined

\* Logger.getCurrentLevel: the level is computed at the first call and kept.
getCurrentLevel(current, configuration) ==
    IF current = JsNull
    THEN OrElse(levelOf(OrElse(Get(configuration, "logLevel"), Str("info")).s),
                levelOf("info"))
    ELSE current

\* this.levels[level] <= this.getCurrentLevel()
shouldLog(level, current) ==
    levelOf(level) # Undefined /\ IntOf(levelOf(level)) <= IntOf(current)

\* LOG_LEVEL as a deployment may set it.
LoggerEnvs ==
    {Rec(<<<<"HUBSPOT_ACCESS_TOKEN", Str("token")>>,
           <<"FEED_URL", Str("http://feed")>>, <<"LOG_LEVEL", level>>>>) :
        level \in {Undefined, Str(""), Str("error"), Str("warn"), Str("info"),
                   Str("debug"), Str("verbose")}}

InitLogger ==
    /\ InitStoreEmpty
    /\ InitRuns
    /\ InitRemoteReady
    /\ InitTransformIdle
    /\ InitProcessIn(LoggerEnvs)

\* Logger.log(level, message): the entry of log tells whether the message
\* was written to the console.
Log(level) ==
    /\ rpc = "loaded"
    /\ Len(log) < MaxLogs
    /\ currentLevel' = getCurrentLevel(currentLevel, config)
    /\ log' = Append(log, <<level, shouldLog(level, currentLevel')>>)
    /\ called' = level
    /\ UNCHANGED <<notProcess, ret, env, config, attempt, lastError, rpc,
                   chunkVars>>

NextLogger ==
    \/ LoadConfig
    \/ \E level \in DOMAIN LEVELS : Log(level)

SpecLogger == InitLogger /\ [][NextLogger]_vars

----------------------------------------------------------------------------
(* cli.js: the modules are required, the options are applied to the
   environment, and the importer runs *)

\* path.resolve(file): the absolute path of a relative one.
resolve(file) == Str("/cwd/" \o file.s)

\* The options commander parses from the command line.
CliOptions ==
    [file : {Undefined, Str("a.json"), Str("b.json")},
     url : {Undefined, Str("http://cli"), Str("http://other")},
     dryRun : BOOLEAN]

CliEnvs ==
    {Rec(<<<<"HUBSPOT_ACCESS_TOKEN", Str("token")>>, <<"FEED_URL", url>>,
           <<"DRY_RUN", dryRunFlag>>>>) :
        url \in {Undefined, Str("http://env")},
        dryRunFlag \in {Undefined, Str("true")}}

InitCli ==
    /\ InitStoreEmpty
    /\ InitRuns
    /\ InitRemoteReady
    /\ feedListings = <<>>
    /\ transformed = <<>>
    /\ tpc = "off"
    /\ arg \in CliOptions
    /\ tz = 0
    /\ ret = NoReturn
    /\ called = "none"
    /\ warnings = resetWarnings
    /\ tracked = <<>>
    /\ InitProcessIn(CliEnvs)

\* require('./importer') and require('./logger') at the top of cli.js:
\* importer.js requires feed-fetcher.js, whose module creates a FeedFetcher,
\* and the constructor reads retryAttempts from the configuration, which is
\* loaded then at the latest.  A configuration that does not validate ends
\* the process.
RequireModules ==
    /\ rpc = "start"
    /\ \E cfg \in ConfigsOf(env) :
          IF cfg = Threw
          THEN rpc' = "crashed" /\ config' = config
          ELSE rpc' = "required" /\ config' = cfg
    /\ called' = "require"
    /\ UNCHANGED <<notProcess, loggerVars, ret, env, retryVars, chunkVars>>

\* The environment after main has applied the options.
applyOptions(environment, options) ==
    LET WithDryRun(e) ==
            IF options.dryRun THEN Put(e, "DRY_RUN", Str("true")) ELSE e
    IN  WithDryRun(
            IF options.file # Undefined
            THEN Put(Put(environment, "FEED_SOURCE", Str("file")),
                     "FEED_FILE_PATH", resolve(options.file))
            ELSE Put(Put(environment, "FEED_SOURCE", Str("url")),
                     "FEED_URL", options.url))

\* main, up to new Importer(): without a source, or with two, it logs an
\* error, shows the help and returns; otherwise it writes the options to
\* process.env, logging a line for a dry run.
ApplyOptions ==
    /\ rpc = "required"
    /\ IF (arg.file = Undefined /\ arg.url = Undefined)
           \/ (arg.file # Undefined /\ arg.url # Undefined)
       THEN /\ rpc' = "exited"
            /\ env' = env
            /\ currentLevel' = getCurrentLevel(currentLevel, config)
       ELSE /\ rpc' = "configured"
            /\ env' = applyOptions(env, arg)
            /\ currentLevel' = IF arg.dryRun
                               THEN getCurrentLevel(currentLevel, config)
                               ELSE currentLevel
    /\ called' = "main"
    /\ UNCHANGED <<notProcess, ret, config, retryVars, chunkVars>>

\* importer.run(): getFeed reads feedSource and the file path or the URL,
\* and the client reads dryRun before each change.  config.get returns the
\* values of the configuration loaded before; the run logs as it goes.
Run ==
    /\ rpc = "configured"
    /\ log' = <<<<"feedSource", Get(config, "feedSource")>>,
                <<"feedFilePath", Get(config, "feedFilePath")>>,
                <<"feedUrl", Get(config, "feedUrl")>>,
                <<"dryRun", Get(config, "dryRun")>>>>
    /\ currentLevel' = getCurrentLevel(currentLevel, config)
    /\ rpc' = "done"
    /\ called' = "run"
    /\ UNCHANGED <<notProcess, ret, env, config, attempt, lastError, chunkVars>>

NextCli ==
    \/ RequireModules
    \/ ApplyOptions
    \/ Run

SpecCli == InitCli /\ [][NextCli]_vars

----------------------------------------------------------------------------
(* transformListings and transformListing, called again and again on the
   one DataTransformer the module exports *)

\* Feed records that raise warnings, of two different types: two about
\* dates in the one, one about the state in the other.
BatchRecords ==
    {Rec(<<<<"external_listing_id", Str("A")>>,
           <<"listing_start_date", Str("not-a-date")>>,
           <<"auction_end_date", Str("soon")>>>>),
     Rec(<<<<"external_listing_id", Str("B")>>,
           <<"state", Str("Atlantis")>>>>)}

\* transformListing over each of these records, in each time zone.
transformOf ==
    [feedListing \in BatchRecords, local \in TimeZones |->
        transformFields(feedListing, local)]

\* The trackWarning calls of the transformListing calls over a list, in order.
RECURSIVE callsOver(_, _)
callsOver(list, local) ==
    IF list = <<>> THEN <<>>
    ELSE transformOf[list[1], local].calls \o callsOver(Tail(list), local)

\* The records transformListings returns for a list.
RECURSIVE recordsOver(_, _)
recordsOver(list, local) ==
    IF list = <<>> THEN <<>>
    ELSE LET listing == transformOf[list[1], local].value
         IN  (IF ~Falsy(Get(listing, "external_listing_id"))
              THEN <<listing>> ELSE <<>>) \o recordsOver(Tail(list), local)

\* transformListings leaves this.warnings as the previous call left them.
warningsKept(w) == w

\* this.resetWarnings() at the start of transformListings: this.warnings is
\* a new object, whatever it was.
warningsAtStart(w) == resetWarnings

\* What logWarningSummary reports: for every type with a count above 0 the
\* count, the examples and whether ', ...' follows them.
logWarningSummary(w) ==
    [type \in {t \in DOMAIN w : w[t].count > 0} |->
        [count |-> w[type].count,
         examples |-> w[type].examples,
         hasMore |-> w[type].count > Len(w[type].examples)]]

InitBatches ==
    /\ InitStoreEmpty
    /\ InitRuns
    /\ InitProcess
    /\ InitRemoteReady
    /\ InitTransformIdle

notBatches ==
    <<remoteVars, runs, pc, outerVars, innerVars, mutated, initVars, tpc,
      env, config, attempt, lastError, rpc, chunkI, batches, currentLevel,
      arg, tz>>

\* transformer.transformListings(list): reset, map and filter, summary.
TransformListings(list) ==
    /\ Len(log) < MaxBatchCalls
    /\ feedListings' = list
    /\ transformed' = recordsOver(list, tz)
    /\ tracked' = callsOver(list, tz)
    /\ warnings' = trackAll(warningsAtStart(warnings), tracked')
    /\ log' = Append(log, [method |-> "transformListings", list |-> list,
                           calls |-> tracked',
                           summary |-> logWarningSummary(warnings')])
    /\ ret' = NoReturn
    /\ called' = "transformListings"
    /\ UNCHANGED notBatches

\* transformer.transformListing(feedListing), called from outside a batch:
\* it counts its warnings on top of those there are and reports nothing.
CallTransformListing(feedListing) ==
    /\ Len(log) < MaxBatchCalls
    /\ Return("transformListing", transformOf[feedListing, tz])
    /\ log' = Append(log, [method |-> "transformListing",
                           list |-> <<feedListing>>,
                           calls |-> transformOf[feedListing, tz].calls,
                           summary |-> logWarningSummary(resetWarnings)])
    /\ UNCHANGED <<notBatches, feedListings, transformed>>

NextBatches ==
    \/ \E list \in ListsUpTo(BatchRecords, MaxFeed) : TransformListings(list)
    \/ \E feedListing \in BatchRecords : CallTransformListing(feedListing)

SpecBatches == InitBatches /\ [][NextBatches]_vars

----------------------------------------------------------------------------
(* Claims about batchUpsert under sequential runs *)

Tallied(res) == res.created + res.updated + res.failed

\* C1: batchUpsert never throws, and every record of its list contributes
\* exactly one outcome: while the loop runs the tallies add up to the number
\* of records handled so far, when it returns they add up to the length of
\* the list, and there is one error entry per failed record; a failed record
\* does not stop the loop.
C1_EveryRecordOneOutcome ==
    \A p \in Procs :
        /\ ~threw[p]
        /\ Len(results[p].errors) = results[p].failed
        /\ pc[p] \in {"search", "write"} => Tallied(results[p]) = i[p] - 1
        /\ pc[p] = "return" => /\ Tallied(results[p]) = Len(listings[p])
                               /\ i[p] = Len(listings[p]) + 1

\* A batch whose first record failed and whose second was created.
C1_Witness ==
    \E p \in Procs :
        /\ pc[p] = "return"
        /\ Len(listings[p]) = 2
        /\ trace[p][1].tally = "failed"
        /\ trace[p][2].tally = "created"
        /\ results[p].failed = 1 /\ results[p].created = 1

\* C2: the remote store never holds two records with the same external
\* identifier.
C2_AtMostOnePerIdentifier ==
    \A j, k \in DOMAIN store : store[j] = store[k] => j = k

\* C3: a record whose lookup failed is tallied as failed, never as created
\* or updated.
C3_LookupFailureIsFailed ==
    \A p \in Procs : \A k \in DOMAIN trace[p] :
        (~trace[p][k].lookupOk /\ trace[p][k].tally # "pending")
            => trace[p][k].tally = "failed"

----------------------------------------------------------------------------
(* Claims about concurrent runs, batching, dry runs and the transformer *)

Created(p) == {k \in DOMAIN trace[p] : trace[p][k].tally = "created"}

\* C7: nothing serializes two runs: a create is issued on the strength of
\* the run's own lookup and adds a remote record whatever another run has
\* created since, so the store holds as many records as creates were tallied
\* (and with both lookups done before either write, two for one identifier).
C7_EveryCreateAddsRecord ==
    Len(store) = Cardinality(Created(1)) + Cardinality(Created(2))

\* Both runs looked up the same identifier without failure, found nothing,
\* and both created it.
C7_Witness ==
    /\ pc[1] = "done" /\ pc[2] = "done"
    /\ Len(trace[1]) = 1 /\ Len(trace[2]) = 1
    /\ trace[1][1].id = trace[2][1].id
    /\ \A p \in Procs : /\ trace[p][1].lookupOk
                        /\ ~trace[p][1].found
                        /\ trace[p][1].tally = "created"
    /\ store = <<trace[1][1].id, trace[1][1].id>>

\* C8: whatever the batch size, processListings returns what one batchUpsert
\* call over the whole list returns for the same per-record outcomes, and
\* every record has been handled.
C8_ChunkingChangesNothing ==
    \A p \in Procs :
        pc[p] = "done" =>
            /\ Len(trace[p]) = Len(allListings[p])
            /\ totalResults[p] = batchUpsert(allListings[p], trace[p])

\* Three records in batches of two, with a failure and a create among them.
C8_Witness ==
    \E p \in Procs :
        /\ pc[p] = "done"
        /\ Len(allListings[p]) = 3
        /\ batchSize[p] = 2
        /\ totalResults[p].failed >= 1
        /\ totalResults[p].created >= 1
        /\ Len(totalResults[p].errors) >= 1

\* C9: a dry run issues no call that changes HubSpot.
C9_DryRunChangesNothing ==
    \A p \in Procs : dryRun[p] => mutated[p] = {}

\* A raw entry yields an identifier when the first identifier key holding a
\* value holds a non-empty one.
YieldsId(raw) ==
    /\ ~raw.isNull
    /\ \E k \in DOMAIN ID_KEYS :
        /\ raw[ID_KEYS[k]] \notin {Absent, Null, ""}
        /\ \A j \in 1..(k - 1) : raw[ID_KEYS[j]] \in {Absent, Null}

IdOf(raw) ==
    IF raw["external_listing_id"] \notin {Absent, Null}
    THEN raw["external_listing_id"] ELSE raw["id"]

Qualifying == {k \in DOMAIN feedListings : YieldsId(feedListings[k])}

\* C10: transformListings returns, in input order, one record for each raw
\* entry that yields a non-empty identifier, carrying that identifier, and
\* nothing for any other entry, null entries included.
C10_OnePerIdentifiedRecord ==
    tpc = "done" =>
        /\ Len(transformed) = Cardinality(Qualifying)
        /\ \E f \in [DOMAIN transformed -> DOMAIN feedListings] :
            /\ \A k \in DOMAIN transformed : f[k] \in Qualifying
            /\ \A j, k \in DOMAIN transformed : j < k => f[j] < f[k]
            /\ \A k \in DOMAIN transformed :
                /\ ~transformed[k].isNull
                /\ transformed[k].external_listing_id = IdOf(feedListings[f[k]])

\* A null entry and an entry without identifier value are dropped around a
\* record that is kept.
C10_Witness ==
    /\ tpc = "done"
    /\ Len(feedListings) = 2
    /\ feedListings[1].isNull
    /\ YieldsId(feedListings[2])
    /\ Len(transformed) = 1
    /\ transformed[1].external_listing_id = "B"

----------------------------------------------------------------------------
(* Claims about the coercers *)

\* The instant a value denotes as a date, NaN when it denotes none.
ParsedInstant(value, local) ==
    IF typeof(value) = "number" THEN parseDateNumber(value)
    ELSE IF typeof(value) = "string" THEN dateFromString(value.s, local)
    ELSE NaN

InRange(time, local) ==
    getFullYear(time, local) >= 1900 /\ getFullYear(time, local) <= 2100

\* C12: every non-null timestamp parseDate returns lies within the calendar
\* years 1900 to 2100, and a value that parses to a date outside that range
\* gives null and exactly one dateOutOfRange warning.
C12_TimestampsWithinRange ==
    called = "parseDate" =>
        /\ ret # JsNull => InRange(ret, tz)
        /\ (~Falsy(arg) /\ ParsedInstant(arg, tz) # NaN
                /\ ~InRange(ParsedInstant(arg, tz), tz))
              => /\ ret = JsNull
                 /\ warnings["dateOutOfRange"].count = 1
                 /\ tracked = <<<<"dateOutOfRange", arg>>>>

\* A number below 10 000 000 000.
BelowSecondsLimit(value) ==
    value.hi < 115 \/ (value.hi = 115 /\ value.lo < 64000000)

\* A number parseDate does not take for a missing value.
IsDateNumber(value) == value.t = "number" /\ ~IsZero(value)

\* C25: a numeric date below 10,000,000,000 is read as epoch seconds and
\* multiplied by 1000, any other as epoch milliseconds, and an instant given
\* in seconds and in milliseconds gives the same timestamp.
C25_SecondsAndMillisecondsAgree ==
    (called = "parseDate" /\ IsDateNumber(arg)) =>
        /\ ret = (IF BelowSecondsLimit(arg) THEN Times1000(arg) ELSE arg)
        /\ BelowSecondsLimit(arg) => parseDate(Times1000(arg), tz).value = ret

\* C25, amended: a numeric date below 10,000,000,000 is read as epoch
\* seconds and multiplied by 1000, any other as epoch milliseconds, and an
\* instant at or after 10,000,000,000 milliseconds, given in seconds below
\* 10,000,000,000 and in milliseconds, gives the same timestamp.
C25_AgreeFromLimitOn ==
    (called = "parseDate" /\ IsDateNumber(arg)) =>
        /\ ret = (IF BelowSecondsLimit(arg) THEN Times1000(arg) ELSE arg)
        /\ (BelowSecondsLimit(arg) /\ ~BelowSecondsLimit(Times1000(arg)))
              => parseDate(Times1000(arg), tz).value = ret

\* 1705320645 seconds gives 1705320645000, as 1705320645000 milliseconds
\* does.
C25_Witness ==
    /\ called = "parseDate"
    /\ arg = Num(1705320645)
    /\ ret = Big(19737, 43845000)
    /\ parseDate(Big(19737, 43845000), tz).value = ret

\* C14: parseNumber, parseBoolean and parseDate return a value for every
\* input and never throw, and an input that denotes no number (no date;
\* for parseBoolean: null or undefined) gives null.
C14_CoercersNeverThrow ==
    called # "none" =>
        /\ ret # Threw /\ ret # NoReturn
        /\ (called = "parseNumber"
                /\ arg \in NonValues \cup OtherValues \cup {NaN}
                            \cup EmptyStrings \cup WordStrings)
              => ret = JsNull
        /\ (called = "parseBoolean" /\ arg \in NonValues) => ret = JsNull
        /\ (called = "parseBoolean" /\ arg \notin NonValues)
              => ret \in {Bool(TRUE), Bool(FALSE)}
        /\ (called = "parseDate"
                /\ arg \in NonValues \cup OtherValues \cup NotNumbers
                            \cup EmptyStrings \cup WordStrings \cup BadDateStrings)
              => ret = JsNull

\* parseBoolean was handed a number, parseDate an object or an infinity.
C14_Witness ==
    \/ called = "parseBoolean" /\ arg = Num(42) /\ ret = Bool(TRUE)
    \/ called = "parseDate" /\ arg \in {JsObject, Infinity} /\ ret = JsNull

----------------------------------------------------------------------------
(* Claims about the warning counters *)

\* The examples of the trackWarning calls made for a category, in order.
TrackedFor(type) ==
    LET For(call) == call[1] = type
        calls == SelectSeq(tracked, For)
    IN  [k \in DOMAIN calls |-> calls[k][2]]

\* C20: since the last reset, the count of every category is the number of
\* trackWarning calls made for it and its examples are the first
\* min(count, 3) examples tracked for it, in order.
C20_CountsAndCappedExamples ==
    \A type \in WARNING_TYPES :
        LET all == TrackedFor(type)
            kept == IF Len(all) < 3 THEN Len(all) ELSE 3
        IN  /\ warnings[type].count = Len(all)
            /\ warnings[type].examples = SubSeq(all, 1, kept)

\* Five examples tracked for one category: count 5, three examples.
C20_Witness ==
    \E type \in WARNING_TYPES :
        /\ Len(TrackedFor(type)) = 5
        /\ warnings[type].count = 5
        /\ Len(warnings[type].examples) = 3

----------------------------------------------------------------------------
(* Claims about deriveStateCode *)

StateCodeValues == {Str(code) : code \in US_STATE_CODES}

\* The record carries a stateCode that is one of the 51 codes in some case.
ExplicitValidCode ==
    /\ Has(arg, "stateCode")
    /\ Get(arg, "stateCode").t = "string"
    /\ toUpperCase(Get(arg, "stateCode").s) \in US_STATE_CODES

\* C16: deriveStateCode does not throw and returns null or one of the 51
\* two-letter codes; a valid explicit code wins; without one, the state
\* "California" gives "CA" and the state "Atlantis" gives null together with
\* exactly one stateDerivationFailed warning whose example is "Atlantis".
C16_StateCodeClosedSet ==
    called = "deriveStateCode" =>
        /\ ret # Threw
        /\ ret = JsNull \/ ret \in StateCodeValues
        /\ ExplicitValidCode =>
               ret = Str(toUpperCase(Get(arg, "stateCode").s))
        /\ ~ExplicitValidCode /\ Get(arg, "state") = Str("California") =>
               ret = Str("CA")
        /\ ~ExplicitValidCode /\ Get(arg, "state") = Str("Atlantis") =>
               /\ ret = JsNull
               /\ TrackedFor("stateDerivationFailed") = <<Str("Atlantis")>>
               /\ warnings["stateDerivationFailed"].count = 1

----------------------------------------------------------------------------
(* Claims about transformListing *)

\* The parts of the display name, each a list of zero or one strings.
StreetLine ==
    IF text(ret, "hs_address_1") = "" THEN <<>>
    ELSE IF text(ret, "hs_address_2") = "" THEN <<text(ret, "hs_address_1")>>
    ELSE <<text(ret, "hs_address_1") \o " " \o text(ret, "hs_address_2")>>

CityPart ==
    IF text(ret, "hs_city") = "" THEN <<>> ELSE <<text(ret, "hs_city")>>

StateZipToken ==
    IF text(ret, "hs_state_province") # "" /\ text(ret, "hs_zip") # ""
    THEN <<text(ret, "hs_state_province") \o " " \o text(ret, "hs_zip")>>
    ELSE IF text(ret, "hs_state_province") # ""
    THEN <<text(ret, "hs_state_province")>>
    ELSE IF text(ret, "hs_zip") # "" THEN <<text(ret, "hs_zip")>>
    ELSE <<>>

NameParts == StreetLine \o CityPart \o StateZipToken

\* C19: every transformed record has a non-empty hs_name: the street line
\* (address 1, then a space and address 2; only when address 1 is present),
\* the city and the "state zip" token joined by ", "; with none of these
\* parts, "Listing " and the identifier, or "Listing" without an identifier.
C19_DisplayName ==
    called = "transformListing" =>
        /\ Get(ret, "hs_name").t = "string"
        /\ Get(ret, "hs_name").s # ""
        /\ NameParts # <<>> => Get(ret, "hs_name").s = join(NameParts, ", ")
        /\ NameParts = <<>> /\ text(ret, "external_listing_id") # "" =>
               Get(ret, "hs_name").s
                   = "Listing " \o text(ret, "external_listing_id")
        /\ NameParts = <<>> /\ text(ret, "external_listing_id") = "" =>
               Get(ret, "hs_name").s = "Listing"

\* A record with a unit but no address 1: the unit is left out of the name.
C19_Witness ==
    /\ called = "transformListing"
    /\ Get(arg, "address") = Undefined
    /\ Get(arg, "unit") = Str("Apt 4")
    /\ Get(arg, "zip") = Num(78701)
    /\ Get(ret, "hs_name") = Str("Austin, TX 78701")

DATE_ONLY_FIELDS ==
    {"listing_start_date", "listing_end_date", "auction_start_date",
     "auction_end_date"}

\* The field of the transformed record holds a timestamp.
IsTimestamp(field) == Get(ret, field).t = "number"

\* The UTC day, counted from the epoch, of the instant the feed value of the
\* field denotes.
UtcDayOfInput(field) == ParsedInstant(Get(arg, field), tz).hi

\* C11: a date-only field that is not null holds 00:00:00.000 UTC of the UTC
\* day of the instant its input denotes (so it is a multiple of 86 400 000),
\* and two fields whose inputs fall on the same UTC day hold the same value.
C11_DateOnlyIsUtcMidnight ==
    called = "transformListing" =>
        /\ \A field \in DATE_ONLY_FIELDS :
              IsTimestamp(field) =>
                  Get(ret, field) = Big(UtcDayOfInput(field), 0)
        /\ \A f, g \in DATE_ONLY_FIELDS :
              (IsTimestamp(f) /\ IsTimestamp(g)
                  /\ UtcDayOfInput(f) = UtcDayOfInput(g))
                => Get(ret, f) = Get(ret, g)

\* The feed value of some key fails its coercion: a date that parseDate
\* turns down, or a number that parseNumber turns down.
FailsCoercion(feedKey) ==
    \/ /\ feedKey \in DATE_ONLY_FIELDS
       /\ ~Falsy(Get(arg, feedKey))
       /\ parseDate(Get(arg, feedKey), tz).value = JsNull
    \/ /\ feedKey \in {"square_footage", "lot_size"}
       /\ Has(arg, feedKey)
       /\ parseNumber(Get(arg, feedKey)) = JsNull

\* C13: a field whose value fails coercion is left unset in the transformed
\* record, never written as null, and the fields that do not fail are there.
C13_FailedFieldLeftUnset ==
    called = "transformListing" =>
        /\ \A key \in DOMAIN ret.props : ret.props[key] # JsNull
        /\ \A feedKey \in DOMAIN arg.props :
              FailsCoercion(feedKey) => ~Has(ret, feedKey)
        /\ Has(ret, "hs_name")
        /\ Has(arg, "external_listing_id") => Has(ret, "external_listing_id")
        /\ ~Falsy(Get(arg, "city")) => Has(ret, "hs_city")

\* The status a human-readable auction phrase stands for.
AUCTION_PHRASES ==
    [phrase \in {"For Sale", "Bidding Started", "Upcoming", "Ended", "Sold"} |->
        CASE phrase \in {"For Sale", "Bidding Started"} -> "active"
          [] phrase = "Upcoming" -> "upcoming"
          [] phrase = "Ended" -> "ended"
          [] phrase = "Sold" -> "sold"]

\* C15: auction_status of a transformed record is absent or one of
\* not_on_auction, upcoming, active, ended, sold: an input of that set passes
\* through, the known phrases are mapped, any other input is dropped, and the
\* rest of the record is populated all the same.
C15_AuctionStatusClosedSet ==
    called = "transformListing" =>
        LET raw == Get(arg, "auction_status")
            status == Get(ret, "auction_status")
        IN  /\ status = Undefined \/ status \in {Str(a) : a \in AUCTION_STATUSES}
            /\ raw \in {Str(a) : a \in AUCTION_STATUSES} => status = raw
            /\ \A phrase \in DOMAIN AUCTION_PHRASES :
                  raw = Str(phrase) => status = Str(AUCTION_PHRASES[phrase])
            /\ raw = Str("Nonsense") =>
                  /\ status = Undefined
                  /\ Has(ret, "external_listing_id")
                  /\ Has(ret, "hs_name")

HS_LISTING_TYPES ==
    {"house", "townhouse", "multi_family", "condos_co_ops", "lots_land",
     "apartments", "manufactured"}

\* C18: every transformed record has hs_listing_type, one of the seven
\* listing types, and no property_type, whatever the feed record supplies.
C18_ListingTypeAlwaysSet ==
    called = "transformListing" =>
        /\ Get(ret, "hs_listing_type") \in {Str(type) : type \in HS_LISTING_TYPES}
        /\ ~Has(ret, "property_type")

----------------------------------------------------------------------------
(* Claims about classifyPropertyType *)

\* The features of the record are the given numbers.
Features(sqft, beds, baths, lot) ==
    /\ Get(arg, "squareFootage") = Num(sqft)
    /\ Get(arg, "bedrooms") = Num(beds)
    /\ Get(arg, "bathrooms") = Num(baths)
    /\ Get(arg, "lotSize") = Num(lot)

----------------------------------------------------------------------------
(* Claims about getFirstAvailableField *)

\* The value of a name counts as present: it is neither undefined nor null.
PresentAt(k) ==
    Get(arg.feedListing, arg.fieldNames[k]) \notin {Undefined, JsNull}

\* C22: getFirstAvailableField returns the value of the first listed name
\* whose value in the record is neither undefined nor null, and null when no
\* listed name has one; 0, false and "" count as present; the record is left
\* as it was.
C22_FirstPresentKey ==
    [][called' = "getFirstAvailableField" =>
          /\ arg' = arg
          /\ \/ /\ \A k \in DOMAIN arg.fieldNames : ~PresentAt(k)
                /\ ret' = JsNull
             \/ \E k \in DOMAIN arg.fieldNames :
                   /\ PresentAt(k)
                   /\ \A j \in 1..(k - 1) : ~PresentAt(j)
                   /\ ret' = Get(arg.feedListing, arg.fieldNames[k])]_vars

\* The first name is null, the second holds 0 and the third a string: 0 is
\* returned.
C22_Witness ==
    /\ called = "getFirstAvailableField"
    /\ Len(arg.fieldNames) = 3
    /\ Get(arg.feedListing, arg.fieldNames[1]) = JsNull
    /\ Get(arg.feedListing, arg.fieldNames[2]) = Num(0)
    /\ Get(arg.feedListing, arg.fieldNames[3]) = Str("x")
    /\ ret = Num(0)

\* The first of marketingEligible and marketing_eligible that is neither
\* missing nor null, and null when there is none.
FirstMarketingFlag ==
    LET camel == Get(arg, "marketingEligible")
        snake == Get(arg, "marketing_eligible")
    IN  IF camel \notin {Undefined, JsNull} THEN camel
        ELSE IF snake \notin {Undefined, JsNull} THEN snake
        ELSE JsNull

\* C23: every transformed record has marketing_eligible: true when neither
\* marketingEligible nor marketing_eligible is present (or both are null),
\* and otherwise the boolean conversion of the first present one, so that an
\* explicit false gives false.
C23_MarketingEligibleDefault ==
    (called = "transformListing" /\ ret # JsNull) =>
        /\ Has(ret, "marketing_eligible")
        /\ Get(ret, "marketing_eligible") =
              (IF FirstMarketingFlag = JsNull THEN Bool(TRUE)
               ELSE parseBoolean(FirstMarketingFlag))
        /\ (FirstMarketingFlag = Bool(FALSE) =>
                Get(ret, "marketing_eligible") = Bool(FALSE))

\* marketingEligible is false and marketing_eligible is true: the record is
\* not eligible.
C23_Witness ==
    /\ called = "transformListing"
    /\ Get(arg, "marketingEligible") = Bool(FALSE)
    /\ Get(arg, "marketing_eligible") = Bool(TRUE)
    /\ Get(ret, "marketing_eligible") = Bool(FALSE)

\* Neither spelling has a value: the record is eligible.
C23_DefaultWitness ==
    /\ called = "transformListing"
    /\ Get(arg, "marketingEligible") = JsNull
    /\ ~Has(arg, "marketing_eligible")
    /\ Get(ret, "marketing_eligible") = Bool(TRUE)

----------------------------------------------------------------------------
(* Claims about the retry loops *)

\* The waits of the loop so far, in order.
Sleeps == SelectSeq(log, LAMBDA e : e[1] = "sleep")

\* The number of times the operation has been invoked.
Calls == Len(SelectSeq(log, LAMBDA e : e[1] = "call"))

\* C24: the wait before a retry grows exponentially: the first wait is
\* retryDelay and every later wait is twice the wait before it.
C24_WaitDoubles ==
    /\ Len(Sleeps) >= 1 => Sleeps[1][2] = IntOf(Get(config, "retryDelay"))
    /\ \A k \in 2..Len(Sleeps) : Sleeps[k][2] = 2 * Sleeps[k - 1][2]

\* C27: a retry loop invokes the operation at least once and at most
\* retryAttempts times; it returns the result of the first attempt that
\* succeeds, with no attempt after it, and throws only after retryAttempts
\* failed attempts, with the failure of the last one.
C27_AttemptsBounded ==
    /\ rpc \in {"awaiting", "sleeping", "done"} =>
          /\ Get(config, "retryAttempts").t = "number"
          /\ Calls <= IntOf(Get(config, "retryAttempts"))
    /\ rpc = "done" =>
          /\ Calls >= 1
          /\ log[Len(log)] = (IF ret.t = "result" THEN <<"call", Calls>>
                              ELSE <<"fail", Calls>>)
          /\ \A k \in 1..(Calls - 1) :
                \E n \in DOMAIN log : log[n] = <<"fail", k>>
          /\ ret.t = "result" => ret.of = Calls
          /\ ret.t = "thrown" =>
                /\ Calls = IntOf(Get(config, "retryAttempts"))
                /\ ret.error =
                      [t |-> "error",
                       message |-> IF called = "retry" THEN "failure"
                                   ELSE "Failed to fetch feed",
                       of |-> Calls]

----------------------------------------------------------------------------
(* Claims about the chunking of processListings *)

RECURSIVE Flatten(_)
Flatten(lists) ==
    IF lists = <<>> THEN <<>> ELSE Head(lists) \o Flatten(Tail(lists))

\* C28: whatever batch size the configuration gives, processListings'
\* chunking ends and its batches partition the listings: every round takes
\* at least one listing and at most batchSize, the batches hold the listings
\* read so far in input order, each once, and at the end they hold them all.
C28_BatchesPartitionListings ==
    rpc \in {"chunking", "done"} =>
        /\ \A k \in DOMAIN batches :
              /\ Len(batches[k]) >= 1
              /\ Get(config, "batchSize") # NaN
              /\ Len(batches[k]) <= IntOf(Get(config, "batchSize"))
        /\ Flatten(batches) = SubSeq(transformed, 1, Len(Flatten(batches)))
        /\ rpc = "done" => Flatten(batches) = transformed

----------------------------------------------------------------------------
(* Claims about the logger *)

\* C30: with LOG_LEVEL set to error, warn, info or debug, a message is
\* written exactly when the rank of its level is at most the rank of the
\* configured level (error 0, warn 1, info 2, debug 3).
C30_EmitsUpToConfiguredLevel ==
    (config # Undefined /\ Get(env, "LOG_LEVEL") # Undefined
        /\ Get(env, "LOG_LEVEL").s \in DOMAIN LEVELS) =>
        \A k \in DOMAIN log :
            log[k][2] = (LEVELS[log[k][1]] <= LEVELS[Get(env, "LOG_LEVEL").s])

----------------------------------------------------------------------------
(* Claims about the command line *)

\* What the run read for a key of the configuration.
ReadOf(key) == (CHOOSE e \in {log[k] : k \in DOMAIN log} : e[1] = key)[2]

\* C29: the values of feedSource, feedFilePath, feedUrl and dryRun that the
\* run reads are those of the options --file, --url and --dry-run.
C29_RunReadsTheOptions ==
    rpc = "done" =>
        /\ arg.file # Undefined =>
              /\ ReadOf("feedSource") = Str("file")
              /\ ReadOf("feedFilePath") = resolve(arg.file)
        /\ arg.url # Undefined =>
              /\ ReadOf("feedSource") = Str("url")
              /\ ReadOf("feedUrl") = arg.url
        /\ arg.dryRun => ReadOf("dryRun") = Bool(TRUE)

----------------------------------------------------------------------------
(* Claims about the order of batchUpsert's operations *)

\* The last entry of run p's trace: the record whose lookup came last.
LastEntry(p) == trace[p][Len(trace[p])]

\* C26: within batchUpsert a record gets one write at most, a create or an
\* update; the write comes after the record's lookup has returned, it is an
\* update of the record found exactly when the lookup found one and a
\* create otherwise, and the lookup of the next record starts only when the
\* outcome of the record before it is tallied.
C26_OneWriteAfterLookup ==
    [][\A p \in Procs :
          /\ (pc[p] = "write" /\ pc'[p] # "write") =>
                /\ Len(trace[p]) >= 1
                /\ LastEntry(p).tally = "pending"
                /\ LastEntry(p).id = listings[p][i[p]].external_listing_id
                /\ trace'[p][Len(trace[p])].tally # "pending"
                /\ ~dryRun[p] =>
                      /\ lastCall'[p].listing = listings[p][i[p]]
                      /\ lastCall'[p].op =
                            (IF LastEntry(p).found THEN "update" ELSE "create")
                      /\ LastEntry(p).found =>
                            lastCall'[p].id = doSearch(store, LastEntry(p).id)
          /\ (lastCall'[p] # lastCall[p] /\ pc'[p] # "idle") => pc[p] = "write"
          /\ Len(trace'[p]) > Len(trace[p]) =>
                /\ pc[p] = "search"
                /\ Len(trace'[p]) = Len(trace[p]) + 1
                /\ Len(trace[p]) >= 1 => LastEntry(p).tally # "pending"]_vars

\* A run has updated the record its first lookup found and then created the
\* record its second lookup did not find.
C26_Witness ==
    \E p \in Procs :
        /\ Len(trace[p]) = 2
        /\ trace[p][1].found /\ trace[p][1].tally = "updated"
        /\ ~trace[p][2].found /\ trace[p][2].tally = "created"
        /\ lastCall[p].op = "create"

----------------------------------------------------------------------------
(* Claims about the warnings of successive batches *)

\* How many of the calls are of the type.
CountOf(calls, type) == Len(SelectSeq(calls, LAMBDA c : c[1] = type))

\* The examples of the calls of the type, the first maxExamples of them.
ExamplesOf(calls, type) ==
    LET all == SelectSeq(calls, LAMBDA c : c[1] = type)
        kept == IF Len(all) < maxExamples THEN Len(all) ELSE maxExamples
    IN  [k \in 1..kept |-> all[k][2]]

\* The summary of the entry agrees with the warnings raised while its own
\* list was transformed, and with nothing else.
OwnSummary(entry) ==
    /\ DOMAIN entry.summary =
            {type \in WARNING_TYPES : CountOf(entry.calls, type) > 0}
    /\ \A type \in DOMAIN entry.summary :
            /\ entry.summary[type].count = CountOf(entry.calls, type)
            /\ entry.summary[type].examples = ExamplesOf(entry.calls, type)

====
